---------------------------- MODULE Spec2Model ----------------------------
(***************************************************************************)
(* A model of the picfixer raster pipeline: ColorUtils, DitheringEngine,   *)
(* EffectsEngine and the ImageProcessor that sequences them, with the      *)
(* palette of the StateManager (SpecStore) and the loading and debounced   *)
(* reprocessing of PicFixerApp (SpecApp, FairSpecApp).                     *)
(*                                                                         *)
(* Numbers.  Bytes are integers 0..255.  The Float32Array error buffers of *)
(* the two error-diffusion ditherers are held in fixed point, as integers  *)
(* scaled by FP = 2^16: every weight of the code (7/16, 3/16, 5/16, 1/16,  *)
(* 1/8) is dyadic, so on rasters of at most 5 pixels the scaled values     *)
(* are exact.  Other fractional quantities (posterize steps, blend         *)
(* weights, Bayer thresholds) are exact rationals num/den.                 *)
(*                                                                         *)
(* Abstractions.  Exact rationals stand for the doubles of the code; the   *)
(* two differ only where a double rounds onto a half-integer tie.  The     *)
(* canvas stores what putImageData wrote (no premultiplied-alpha loss).    *)
(* Math.random is an ambient stream random.stream read at position         *)
(* random.next.  The blob loop of addBlobs is one action per iteration.    *)
(* FairSpec asks only that a process() call in progress keeps running: the *)
(* call is synchronous, so once entered it runs to its return or throw.    *)
(***************************************************************************)
EXTENDS Integers, Sequences, FiniteSets, TLC

VARIABLES
    heap,            \* the ImageData objects: heap.orig is this.originalImageData
    imageDataRef,    \* process(): which object the local `imageData` refers to
    sourceCanvas,    \* this.sourceCanvas  [width, height, data]
    processCanvas,   \* this.processCanvas [width, height, data]
    processCtx,      \* this.processCtx    [globalAlpha, globalCompositeOperation, imageSmoothingEnabled]
    pc,              \* position of the running process() call, "idle" between calls
    settings,        \* the settings object of the running / last process() call
    result,          \* outcome of the last call: "none", "ok" or the error thrown
    stages,          \* the stages the running / last process() call has executed, in order
    loaded,          \* what the last successful load stored (history)
    preDither,       \* the working raster as it entered the dither stage (history)
    ditherOut,       \* the raster returned by the selected dithering strategy (history)
    numBlobs,        \* addBlobs: the blob count of the last overlay since the load (history)
    blobCanvas,      \* addBlobs: [layer, i], the blob canvas (alpha in thousandths) and the loop counter
    random,          \* Math.random: [stream, next], the ambient stream and its next draw
    loadResult,      \* how the last settled loadImage promise settled: "none", "resolved", "rejected"
    fnIn,            \* unit harness: the input raster
    fnPal,           \* unit harness: the palette
    fnOp,            \* unit harness: the function applied
    fnOut,           \* unit harness: its result
    colors,          \* StateManager: this.state.colors
    storeCall,       \* StateManager: the last palette call, what it returned, whether it notified
    storeSettings,   \* StateManager: this.state.settings
    load,            \* loadImage: the kinds of source of the promises that have not settled
    timers,          \* the timeouts of processImageDebounced that are armed
    raf,             \* the frame callbacks processImage requested, in order, each by who called
    indicator,       \* whether the processing indicator has the class 'active'
    burst,           \* debounced calls since the timer was last found unarmed, and its firings since (history)
    lastRun          \* the last run a frame callback made (history)

vars == <<heap, imageDataRef, sourceCanvas, processCanvas, processCtx, pc, settings,
          result, stages, loaded, preDither, ditherOut, numBlobs, blobCanvas,
          random, loadResult, fnIn, fnPal, fnOp, fnOut, colors, storeCall,
          storeSettings, load, timers, raf, indicator, burst, lastRun>>

pipeVars == <<heap, imageDataRef, sourceCanvas, processCanvas, processCtx, pc, settings,
              result, stages, loaded, preDither, ditherOut, numBlobs,
              blobCanvas, random, loadResult>>

fnVars == <<fnIn, fnPal, fnOp, fnOut>>

storeVars == <<colors, storeCall>>

appVars == <<storeSettings, load, timers, raf, indicator, burst, lastRun>>

uiVars == <<storeVars, appVars>>

-----------------------------------------------------------------------------
(* Arithmetic helpers                                                      *)

Abs(n) == IF n < 0 THEN -n ELSE n

Min(a, b) == IF a < b THEN a ELSE b

Max(a, b) == IF a > b THEN a ELSE b

\* Fixed-point scale of the Float32Array buffers.
FP == 2^16

\* Base of the limbs in which squared distances are held (they exceed 32 bits).
LB == 2^9

\* Math.round(num/den), den > 0: the nearest integer, halves rounded up.
MathRound(num, den) == (2 * num + den) \div (2 * den)

\* Storing num/den (den > 0) into a Uint8ClampedArray: clamp to [0,255], round
\* to the nearest integer, halves to even.
ToUint8Clamped(num, den) ==
    IF num <= 0 THEN 0
    ELSE IF num >= 255 * den THEN 255
    ELSE LET q == num \div den
             r2 == 2 * (num % den)
         IN  IF r2 < den THEN q
             ELSE IF r2 > den THEN q + 1
             ELSE IF q % 2 = 0 THEN q ELSE q + 1

-----------------------------------------------------------------------------
(* Rasters                                                                 *)

\* An ImageData object: width, height and width*height RGBA pixels, row-major.
MkImage(w, h, px) == [width |-> w, height |-> h, data |-> px]

PixelAt(img, x, y) == img.data[y * img.width + x + 1]

Black == <<0, 0, 0>>

White == <<255, 255, 255>>

\* The rgb of a pixel.
RGB(p) == <<p[1], p[2], p[3]>>

\* A colour written with an opaque alpha.
SetRGBA(p, c) == <<c[1], c[2], c[3], 255>>

\* data[idx], data[idx + 1], data[idx + 2] = c: the alpha byte stays.
SetRGB(p, c) == <<c[1], c[2], c[3], p[4]>>

-----------------------------------------------------------------------------
(* ColorUtils                                                              *)

\* hexToRgb: a colour text is a sequence of hex digits; anything but six
\* digits does not match the pattern and yields black.
hexToRgb(hex) ==
    IF Len(hex) = 6 /\ \A i \in 1..6 : hex[i] \in 0..15
    THEN <<16 * hex[1] + hex[2], 16 * hex[3] + hex[4], 16 * hex[5] + hex[6]>>
    ELSE <<0, 0, 0>>

getLuminance(r, g, b) == (r * 77 + g * 150 + b * 29) \div 256

\* One channel's weighted squared difference w*d*d for a fixed-point d, as the
\* coefficients of LB^4 .. LB^0 (not yet carried).
SqLimbs(d, w) ==
    LET m == Abs(d)
        a == m \div (LB * LB)
        b == (m \div LB) % LB
        c == m % LB
    IN  <<w * a * a, w * 2 * a * b, w * (2 * a * c + b * b), w * 2 * b * c, w * c * c>>

\* Carry propagation: every limb but the first below LB.
CarryLimbs(t) ==
    LET c0 == t[5]
        c1 == t[4] + c0 \div LB
        c2 == t[3] + c1 \div LB
        c3 == t[2] + c2 \div LB
        c4 == t[1] + c3 \div LB
    IN  <<c4, c3 % LB, c2 % LB, c1 % LB, c0 % LB>>

\* colorDistanceSq, times 100 and FP^2: dr*dr*0.3 + dg*dg*0.59 + db*db*0.11
\* of fixed-point colours, a carried limb tuple.
colorDistanceSq(r1, g1, b1, r2, g2, b2) ==
    LET R == SqLimbs(r1 - r2, 30)
        G == SqLimbs(g1 - g2, 59)
        B == SqLimbs(b1 - b2, 11)
    IN  CarryLimbs([k \in 1..5 |-> R[k] + G[k] + B[k]])

\* dist <= minDist on carried limb tuples.
DistLessOrEqual(s, t) ==
    s = t \/ \E k \in 1..5 : s[k] < t[k] /\ \A j \in 1..(k - 1) : s[j] = t[j]

\* dist < minDist on carried limb tuples.
DistLess(s, t) ==
    \E k \in 1..5 : s[k] < t[k] /\ \A j \in 1..(k - 1) : s[j] = t[j]

\* What palette[0] is when the palette is empty.
Undefined == <<>>

RECURSIVE ClosestScan(_, _, _, _, _, _, _)
ClosestScan(r, g, b, palette, i, minDist, closest) ==
    IF i > Len(palette) THEN closest
    ELSE LET p == palette[i]
             dist == colorDistanceSq(r, g, b, p[1] * FP, p[2] * FP, p[3] * FP)
         IN  IF minDist = Undefined \/ DistLess(dist, minDist)
             THEN ClosestScan(r, g, b, palette, i + 1, dist, p)
             ELSE ClosestScan(r, g, b, palette, i + 1, minDist, closest)

\* findClosestColor of a fixed-point colour: minDist starts at Infinity
\* (Undefined here) and closest at palette[0].
findClosestColor(r, g, b, palette) ==
    ClosestScan(r, g, b, palette, 1, Undefined,
                IF Len(palette) = 0 THEN Undefined ELSE palette[1])

\* Insertion of one entry into a list sorted by luminance, after its equals:
\* Array.prototype.sort is stable.
RECURSIVE InsertByLuminance(_, _)
InsertByLuminance(sorted, c) ==
    IF sorted = <<>> THEN <<c>>
    ELSE IF getLuminance(c[1], c[2], c[3])
              < getLuminance(sorted[Len(sorted)][1], sorted[Len(sorted)][2], sorted[Len(sorted)][3])
         THEN Append(InsertByLuminance(SubSeq(sorted, 1, Len(sorted) - 1), c), sorted[Len(sorted)])
         ELSE Append(sorted, c)

RECURSIVE sortPaletteByLuminance(_)
sortPaletteByLuminance(palette) ==
    IF palette = <<>> THEN <<>>
    ELSE InsertByLuminance(sortPaletteByLuminance(SubSeq(palette, 1, Len(palette) - 1)),
                           palette[Len(palette)])

\* getPaletteIndexByLuminance of the luminance num/den (den > 0).
getPaletteIndexByLuminance(num, den, paletteLength) ==
    LET index == MathRound(num * (paletteLength - 1), den * 255)
    IN  Max(0, Min(paletteLength - 1, index))

\* clamp, of num/den: the value stays a fraction.
clamp(num, den) == IF num < 0 THEN 0 ELSE IF num > 255 * den THEN 255 * den ELSE num

-----------------------------------------------------------------------------
(* DitheringEngine                                                         *)

\* The Float32Array copy of the bytes (all four channels), in fixed point.
FloatBuffer(data) == [i \in 1..Len(data) |-> [k \in 1..4 |-> data[i][k] * FP]]

\* buffer[j] += err * num/16 on the three colour channels.
AddError(buffer, j, err, num) ==
    [buffer EXCEPT ![j] = <<@[1] + (err[1] * num) \div 16,
                            @[2] + (err[2] * num) \div 16,
                            @[3] + (err[3] * num) \div 16,
                            @[4]>>]

\* The error with its sign inverted: chosen - buffered.
PixelErrorNegated(buffered, chosen) ==
    <<chosen[1] * FP - buffered[1], chosen[2] * FP - buffered[2], chosen[3] * FP - buffered[3]>>

\* The error of a buffered pixel against the colour chosen for it.
PixelError(buffered, chosen) ==
    <<buffered[1] - chosen[1] * FP, buffered[2] - chosen[2] * FP, buffered[3] - chosen[3] * FP>>

\* The distribution without the test of the right edge: the right and the
\* bottom-right share of a pixel of the last column go to the next index.
FSDistributeWraps(buffer, i, err, width, height) ==
    LET x == (i - 1) % width
        y == (i - 1) \div width
        n == width * height
        b1 == IF i + 1 <= n THEN AddError(buffer, i + 1, err, 7) ELSE buffer
        b2 == IF y + 1 < height /\ x > 0 THEN AddError(b1, i + width - 1, err, 3) ELSE b1
        b3 == IF y + 1 < height THEN AddError(b2, i + width, err, 5) ELSE b2
        b4 == IF i + width + 1 <= n THEN AddError(b3, i + width + 1, err, 1) ELSE b3
    IN  b4

\* One pixel of Floyd-Steinberg: the buffer after the error of pixel i is
\* distributed right 7/16, bottom-left 3/16, bottom 5/16, bottom-right 1/16.
FSDistribute(buffer, i, err, width, height) ==
    LET x == (i - 1) % width
        y == (i - 1) \div width
        b1 == IF x + 1 < width THEN AddError(buffer, i + 1, err, 7) ELSE buffer
        b2 == IF y + 1 < height /\ x > 0 THEN AddError(b1, i + width - 1, err, 3) ELSE b1
        b3 == IF y + 1 < height THEN AddError(b2, i + width, err, 5) ELSE b2
        b4 == IF y + 1 < height /\ x + 1 < width THEN AddError(b3, i + width + 1, err, 1) ELSE b3
    IN  b4

RECURSIVE FSLoop(_, _, _, _, _, _)
FSLoop(data, buffer, i, width, height, palette) ==
    IF i > width * height THEN data
    ELSE LET chosen == findClosestColor(buffer[i][1], buffer[i][2], buffer[i][3], palette)
         IN  FSLoop([data EXCEPT ![i] = SetRGB(@, chosen)],
                    FSDistribute(buffer, i, PixelError(buffer[i], chosen), width, height),
                    i + 1, width, height, palette)

\* The destructuring of findClosestColor's result throws on the first pixel
\* when the palette is empty.
closestColorThrows(imageData, palette) == Len(imageData.data) > 0 /\ Len(palette) = 0

floydSteinbergBroken(imageData, palette) == imageData

floydSteinberg(imageData, palette) ==
    IF closestColorThrows(imageData, palette) THEN imageData
    ELSE [imageData EXCEPT !.data = FSLoop(imageData.data, FloatBuffer(imageData.data), 1,
                                           imageData.width, imageData.height, palette)]

\* The six Atkinson neighbours, as [dy, dx].
AtkinsonNeighbors == <<<<0, 1>>, <<0, 2>>, <<1, -1>>, <<1, 0>>, <<1, 1>>, <<2, 0>>>>

\* The distribution with the column of a neighbour left untested: a share
\* that leaves a row on the right or the left lands in the adjacent row.
RECURSIVE AtkinsonDistributeWraps(_, _, _, _, _, _)
AtkinsonDistributeWraps(buffer, i, err, width, height, k) ==
    IF k > Len(AtkinsonNeighbors) THEN buffer
    ELSE LET j == i + AtkinsonNeighbors[k][1] * width + AtkinsonNeighbors[k][2]
             b1 == IF j >= 1 /\ j <= width * height THEN AddError(buffer, j, err, 2)
                   ELSE buffer
         IN  AtkinsonDistributeWraps(b1, i, err, width, height, k + 1)

RECURSIVE AtkinsonDistribute(_, _, _, _, _, _)
AtkinsonDistribute(buffer, i, err, width, height, k) ==
    IF k > Len(AtkinsonNeighbors) THEN buffer
    ELSE LET ny == (i - 1) \div width + AtkinsonNeighbors[k][1]
             nx == ((i - 1) % width) + AtkinsonNeighbors[k][2]
             b1 == IF ny >= 0 /\ ny < height /\ nx >= 0 /\ nx < width
                   THEN AddError(buffer, ny * width + nx + 1, err, 2)
                   ELSE buffer
         IN  AtkinsonDistribute(b1, i, err, width, height, k + 1)

RECURSIVE AtkinsonLoop(_, _, _, _, _, _)
AtkinsonLoop(data, buffer, i, width, height, palette) ==
    IF i > width * height THEN data
    ELSE LET chosen == findClosestColor(buffer[i][1], buffer[i][2], buffer[i][3], palette)
         IN  AtkinsonLoop([data EXCEPT ![i] = SetRGB(@, chosen)],
                          AtkinsonDistribute(buffer, i, PixelError(buffer[i], chosen),
                                             width, height, 1),
                          i + 1, width, height, palette)

atkinson(imageData, palette) ==
    IF closestColorThrows(imageData, palette) THEN imageData
    ELSE [imageData EXCEPT !.data = AtkinsonLoop(imageData.data, FloatBuffer(imageData.data), 1,
                                                 imageData.width, imageData.height, palette)]

\* The loop of quantize with nr stored in all three colour bytes.
RECURSIVE QuantizeLoopRedOnly(_, _, _)
QuantizeLoopRedOnly(data, i, palette) ==
    IF i > Len(data) THEN data
    ELSE LET nr == findClosestColor(data[i][1] * FP, data[i][2] * FP, data[i][3] * FP,
                                    palette)[1]
         IN  QuantizeLoopRedOnly([data EXCEPT ![i] = SetRGB(@, <<nr, nr, nr>>)], i + 1, palette)

RECURSIVE QuantizeLoop(_, _, _)
QuantizeLoop(data, i, palette) ==
    IF i > Len(data) THEN data
    ELSE QuantizeLoop([data EXCEPT ![i] = SetRGB(@, findClosestColor(@[1] * FP, @[2] * FP,
                                                                    @[3] * FP, palette))],
                      i + 1, palette)

quantize(imageData, palette) ==
    IF closestColorThrows(imageData, palette) THEN imageData
    ELSE [imageData EXCEPT !.data = QuantizeLoop(imageData.data, 1, palette)]

\* The Bayer matrices, each threshold times 10000.
bayerMatrices(size) ==
    CASE size = 2 -> << <<0, 5000>>,
                        <<7500, 2500>> >>
      [] size = 8 -> << <<0, 5000, 1250, 6250, 310, 5310, 1560, 6560>>,
                        <<7500, 2500, 8750, 3750, 7810, 2810, 9060, 4060>>,
                        <<1880, 6880, 630, 5630, 2190, 7190, 940, 5940>>,
                        <<9380, 4380, 8130, 3130, 9690, 4690, 8440, 3440>>,
                        <<470, 5470, 1720, 6720, 160, 5160, 1410, 6410>>,
                        <<7970, 2970, 9220, 4220, 7660, 2660, 8910, 3910>>,
                        <<2340, 7340, 1090, 6090, 2030, 7030, 780, 5780>>,
                        <<9840, 4840, 8590, 3590, 9530, 4530, 8280, 3280>> >>
      [] OTHER    -> << <<0, 5000, 1250, 6250>>,
                        <<7500, 2500, 8750, 3750>>,
                        <<1875, 6875, 625, 5625>>,
                        <<9375, 4375, 8125, 3125>> >>

\* bayer[y % matrixSize][x % matrixSize] is undefined (and the pixel's
\* destructuring throws) when an index falls outside the matrix in use;
\* x % 0 is NaN.  The remainder takes the sign of the dividend.
thresholdDefined(x, y, matrixSize) ==
    /\ matrixSize # 0
    /\ (y % Abs(matrixSize)) + 1 <= Len(bayerMatrices(matrixSize))
    /\ (x % Abs(matrixSize)) + 1 <= Len(bayerMatrices(matrixSize))

\* The palette index with the matrix read as bayer[x][y].
orderedIndexTransposed(p, x, y, matrixSize, numColors) ==
    LET threshold == bayerMatrices(matrixSize)[(x % Abs(matrixSize)) + 1][(y % Abs(matrixSize)) + 1]
        lum == getLuminance(p[1], p[2], p[3])
    IN  getPaletteIndexByLuminance(20000 * lum + 255 * (threshold - 5000), 20000, numColors)

\* The palette index of one pixel of ordered dithering.
orderedIndex(p, x, y, matrixSize, numColors) ==
    LET threshold == bayerMatrices(matrixSize)[(y % Abs(matrixSize)) + 1][(x % Abs(matrixSize)) + 1]
        lum == getLuminance(p[1], p[2], p[3])
    IN  getPaletteIndexByLuminance(20000 * lum + 255 * (threshold - 5000), 20000, numColors)

\* The first pixel at or after i whose processing throws, 0 when none does.
RECURSIVE orderedFirstThrow(_, _, _, _)
orderedFirstThrow(imageData, palette, matrixSize, i) ==
    IF i > Len(imageData.data) THEN 0
    ELSE IF Len(palette) = 0
            \/ ~thresholdDefined((i - 1) % imageData.width, (i - 1) \div imageData.width, matrixSize)
         THEN i
         ELSE orderedFirstThrow(imageData, palette, matrixSize, i + 1)

orderedDitherThrows(imageData, palette, matrixSize) ==
    orderedFirstThrow(imageData, palette, matrixSize, 1) # 0

\* In place: the pixels before the first throwing one are already written.
orderedDither(imageData, palette, matrixSize) ==
    LET sortedPalette == sortPaletteByLuminance(palette)
        stop == orderedFirstThrow(imageData, palette, matrixSize, 1)
        last == IF stop = 0 THEN Len(imageData.data) ELSE stop - 1
    IN  [imageData EXCEPT !.data =
            [i \in 1..Len(imageData.data) |->
                IF i > last THEN imageData.data[i]
                ELSE SetRGB(imageData.data[i],
                            sortedPalette[orderedIndex(imageData.data[i],
                                                       (i - 1) % imageData.width,
                                                       (i - 1) \div imageData.width,
                                                       matrixSize, Len(sortedPalette)) + 1])]]

-----------------------------------------------------------------------------
(* EffectsEngine                                                           *)

\* The argument `palette = null` of posterize.
NullPalette == <<Undefined>>

\* levels = Math.max(2, Math.min(16, levels))
clampLevels(levels) == Max(2, Min(16, levels))

\* Math.floor(v / step) of the value num/den >= 0.
StepIndexFloor(num, den, levels) == (num * (levels - 1)) \div (den * 255)

\* Math.round(v / step), step = 255 / (levels - 1), of the value num/den.
StepIndex(num, den, levels) == MathRound(num * (levels - 1), den * 255)

\* Luminance mode with the division made whatever the luminance: 0 / 0 is
\* NaN, which the byte array stores as 0.
posterizeLuminanceUnguarded(p, levels) ==
    LET lum == getLuminance(p[1], p[2], p[3])
        k == StepIndex(lum, 1, levels)
        Scaled(v) == IF lum > 0 THEN ToUint8Clamped(v * k * 255, (levels - 1) * lum) ELSE 0
    IN  <<Scaled(p[1]), Scaled(p[2]), Scaled(p[3]), p[4]>>

\* Luminance mode without a palette: the luminance is snapped to the step
\* grid and the colour scaled by quantLum / lum (by 1 when lum is 0).
posterizeLuminance(p, levels) ==
    LET lum == getLuminance(p[1], p[2], p[3])
        k == StepIndex(lum, 1, levels)
        Scaled(v) == IF lum > 0 THEN ToUint8Clamped(v * k * 255, (levels - 1) * lum) ELSE v
    IN  <<Scaled(p[1]), Scaled(p[2]), Scaled(p[3]), p[4]>>

posterizePerChannel(p, levels) ==
    LET Snap(v) == ToUint8Clamped(StepIndex(v, 1, levels) * 255, levels - 1)
    IN  <<Snap(p[1]), Snap(p[2]), Snap(p[3]), p[4]>>

RECURSIVE SumRGB(_, _)
SumRGB(data, i) ==
    IF i > Len(data) THEN 0 ELSE data[i][1] + data[i][2] + data[i][3] + SumRGB(data, i + 1)

\* Artistic mode: mean = sum / (data.length * 0.75) = sum / (3 n); the
\* contrast boost (v - mean) * 1.3 + mean = (13 v n - sum) / (10 n); then the
\* step grid, green times 1.05.
posterizeArtistic(p, levels, sum, n) ==
    LET K(v) == StepIndex(13 * v * n - sum, 10 * n, levels)
    IN  <<ToUint8Clamped(K(p[1]) * 255, levels - 1),
          ToUint8Clamped(K(p[2]) * 255 * 21, (levels - 1) * 20),
          ToUint8Clamped(K(p[3]) * 255, levels - 1),
          p[4]>>

\* The final pass: every pixel to the entry of the luminance-sorted palette
\* its luminance indexes.
mapToPalette(data, palette) ==
    LET sortedPalette == sortPaletteByLuminance(palette)
    IN  [i \in 1..Len(data) |->
            SetRGB(data[i],
                   sortedPalette[getPaletteIndexByLuminance(
                       getLuminance(data[i][1], data[i][2], data[i][3]), 1,
                       Len(sortedPalette)) + 1])]

\* posterize with the luminance mode applied whether or not a palette is given.
posterizeModeFirst(imageData, levels, mode, palette) ==
    LET lv == clampLevels(levels)
        data == imageData.data
        d1 == IF mode = "luminance"
              THEN [i \in 1..Len(data) |-> posterizeLuminance(data[i], lv)]
              ELSE IF mode = "per-channel"
              THEN [i \in 1..Len(data) |-> posterizePerChannel(data[i], lv)]
              ELSE IF mode = "artistic"
              THEN [i \in 1..Len(data) |->
                       posterizeArtistic(data[i], lv, SumRGB(data, 1), Len(data))]
              ELSE data
        d2 == IF palette # NullPalette /\ Len(palette) > 0 THEN mapToPalette(d1, palette) ELSE d1
    IN  [imageData EXCEPT !.data = d2]

posterize(imageData, levels, mode, palette) ==
    LET lv == clampLevels(levels)
        data == imageData.data
        d1 == IF mode = "luminance" /\ palette = NullPalette
              THEN [i \in 1..Len(data) |-> posterizeLuminance(data[i], lv)]
              ELSE IF mode = "per-channel"
              THEN [i \in 1..Len(data) |-> posterizePerChannel(data[i], lv)]
              ELSE IF mode = "artistic"
              THEN [i \in 1..Len(data) |->
                       posterizeArtistic(data[i], lv, SumRGB(data, 1), Len(data))]
              ELSE data
        d2 == IF palette # NullPalette /\ Len(palette) > 0 THEN mapToPalette(d1, palette) ELSE d1
    IN  [imageData EXCEPT !.data = d2]

\* Math.random() returns draw/RandDen; a stream <<a, b>> of the ambient
\* generator yields (a + b k) mod RandDen as its k-th draw (k = 0, 1, ...).
RandDen == 10

Draw(stream, k) == (stream[1] + stream[2] * k) % RandDen

\* addNoise with one draw per colour byte instead of one per pixel.
addNoisePerChannel(imageData, amount, stream, o) ==
    [imageData EXCEPT !.data =
        [i \in 1..Len(imageData.data) |->
            LET Noisy(v, k) == ToUint8Clamped(v * RandDen
                                   + (2 * Draw(stream, o + 3 * (i - 1) + k) - RandDen) * amount,
                                              RandDen)
            IN  <<Noisy(@[i][1], 0), Noisy(@[i][2], 1), Noisy(@[i][3], 2), @[i][4]>>]]

\* addNoise: noise = (Math.random() - 0.5) * amount * 2, one draw per pixel
\* (the first is draw number o of the stream), added to R, G and B.
addNoise(imageData, amount, stream, o) ==
    [imageData EXCEPT !.data =
        [i \in 1..Len(imageData.data) |->
            LET noise == (2 * Draw(stream, o + i - 1) - RandDen) * amount
                Noisy(v) == ToUint8Clamped(v * RandDen + noise, RandDen)
            IN  <<Noisy(@[i][1]), Noisy(@[i][2]), Noisy(@[i][3]), @[i][4]>>]]

\* blendWithOriginal with blendAmount = blendPct / 100.
blendWithOriginal(processedData, originalData, blendPct) ==
    [processedData EXCEPT !.data =
        [i \in 1..Len(processedData.data) |->
            LET Mix(k) == ToUint8Clamped(@[i][k] * (100 - blendPct)
                                         + originalData.data[i][k] * blendPct, 100)
            IN  <<Mix(1), Mix(2), Mix(3), @[i][4]>>]]

-----------------------------------------------------------------------------
(* The 2d canvas, as far as the pipeline uses it.  The browser's           *)
(* rasteriser is abstracted: alpha is held in bytes, blends are rounded    *)
(* once per channel.                                                       *)

\* A canvas whose bitmap is all transparent black holds no pixel list.
BlankCanvas(w, h) == [width |-> w, height |-> h, data |-> <<>>]

\* The default state of a 2d context; globalAlpha in percent.
DefaultCtx ==
    [globalAlpha |-> 100, globalCompositeOperation |-> "source-over", imageSmoothingEnabled |-> TRUE]

\* The values globalCompositeOperation accepts; assigning any other is ignored.
CanvasBlendOps ==
    {"multiply", "screen", "overlay", "darken", "lighten", "color-dodge", "color-burn",
     "hard-light", "soft-light", "difference", "exclusion"}

CanvasOps == CanvasBlendOps \cup {"source-over"}

\* canvas.width = w; canvas.height = h, with an assignment of the size the
\* canvas already has taken for a no-op.
ResizeCanvasKeep(canvas, w, h) ==
    [canvas |-> IF canvas.width = w /\ canvas.height = h THEN canvas ELSE BlankCanvas(w, h),
     ctx |-> DefaultCtx]

\* canvas.width = w; canvas.height = h: the bitmap is cleared and the context
\* state reset, also when the size does not change.
ResizeCanvas(canvas, w, h) == [canvas |-> BlankCanvas(w, h), ctx |-> DefaultCtx]

\* ctx.getImageData(0, 0, w, h) of the whole canvas.
getImageData(canvas) ==
    MkImage(canvas.width, canvas.height,
            IF canvas.data = <<>>
            THEN [i \in 1..(canvas.width * canvas.height) |-> <<0, 0, 0, 0>>]
            ELSE canvas.data)

\* getImageData throws IndexSizeError on a zero width or height.
getImageDataThrows(w, h) == w = 0 \/ h = 0

\* ctx.putImageData(imageData, 0, 0) on a canvas of the same size: the pixels
\* are replaced, whatever the context state.
putImageData(canvas, imageData) == [canvas EXCEPT !.data = imageData.data]

ISqrt(v) == CHOOSE r \in 0..255 : r * r <= v /\ v < (r + 1) * (r + 1)

Multiply(a, b) == MathRound(a * b, 255)

Screen(a, b) == a + b - Multiply(a, b)

HardLight(cb, cs) == IF 2 * cs <= 255 THEN Multiply(cb, 2 * cs) ELSE Screen(cb, 2 * cs - 255)

\* The separable blend function B(cb, cs) of a composite operation, on bytes.
CanvasBlend(cb, cs, op) ==
    CASE op = "multiply"    -> Multiply(cb, cs)
      [] op = "screen"      -> Screen(cb, cs)
      [] op = "overlay"     -> HardLight(cs, cb)
      [] op = "hard-light"  -> HardLight(cb, cs)
      [] op = "darken"      -> Min(cb, cs)
      [] op = "lighten"     -> Max(cb, cs)
      [] op = "difference"  -> Abs(cb - cs)
      [] op = "exclusion"   -> cb + cs - MathRound(2 * cb * cs, 255)
      [] op = "color-dodge" -> IF cb = 0 THEN 0 ELSE IF cs = 255 THEN 255
                               ELSE Min(255, MathRound(cb * 255, 255 - cs))
      [] op = "color-burn"  -> IF cb = 255 THEN 255 ELSE IF cs = 0 THEN 0
                               ELSE 255 - Min(255, MathRound((255 - cb) * 255, cs))
      [] op = "soft-light"  -> IF 2 * cs <= 255
                               THEN cb - MathRound((255 - 2 * cs) * cb * (255 - cb), 255 * 255)
                               ELSE cb + MathRound((2 * cs - 255)
                                                   * ((IF 4 * cb <= 255
                                                       THEN MathRound(((16 * cb - 12 * 255) * cb
                                                                       + 4 * 255 * 255) * cb, 255 * 255)
                                                       ELSE ISqrt(cb * 255)) - cb), 255)
      [] OTHER              -> cs

\* One pixel of a drawImage: the source colour src with alpha byte q (the
\* global alpha included) composited onto dst under the operation op.
CompositePixel(dst, src, q, op) ==
    LET a == dst[4]
        ao == q * 255 + a * (255 - q)
        Mix(k) == IF ao = 0 THEN 0
                  ELSE MathRound(q * (255 - a) * src[k] + q * a * CanvasBlend(dst[k], src[k], op)
                                 + (255 - q) * a * dst[k], ao)
    IN  <<Mix(1), Mix(2), Mix(3), MathRound(ao, 255)>>

\* ctx.drawImage(source, 0, 0, canvas.width, canvas.height): the source
\* raster scaled to the canvas and composited under the context state.
\* Without smoothing the nearest source pixel is taken; with it, the mean
\* of the source pixels the destination pixel covers.
ScaledPixel(source, x, y, w, h, smoothing) ==
    LET nx == ((2 * x + 1) * source.width) \div (2 * w)
        ny == ((2 * y + 1) * source.height) \div (2 * h)
        x0 == (x * source.width) \div w
        x1 == Max(x0, ((x + 1) * source.width + w - 1) \div w - 1)
        y0 == (y * source.height) \div h
        y1 == Max(y0, ((y + 1) * source.height + h - 1) \div h - 1)
        cells == (x0..x1) \X (y0..y1)
        RECURSIVE SumOver(_, _)
        SumOver(S, k) == IF S = {} THEN 0
                         ELSE LET c == CHOOSE c \in S : TRUE
                              IN  PixelAt(source, c[1], c[2])[k] + SumOver(S \ {c}, k)
    IN  IF smoothing
        THEN [k \in 1..4 |-> MathRound(SumOver(cells, k), Cardinality(cells))]
        ELSE PixelAt(source, nx, ny)

drawImage(canvas, ctx, source) ==
    LET dst == getImageData(canvas).data
    IN  [canvas EXCEPT !.data =
            [i \in 1..(canvas.width * canvas.height) |->
                LET p == ScaledPixel(source, (i - 1) % canvas.width, (i - 1) \div canvas.width,
                                     canvas.width, canvas.height, ctx.imageSmoothingEnabled)
                IN  CompositePixel(dst[i], p, MathRound(p[4] * ctx.globalAlpha, 100),
                                   ctx.globalCompositeOperation)]]

-----------------------------------------------------------------------------
(* EffectsEngine.addBlobs.  options.intensity and options.softness are in  *)
(* percent, positions and sizes in units of 1/RandDen pixel.  The outline  *)
(* of a blob is abstracted to the disc inscribed in its control points and *)
(* its radial gradient to the colour stop at or below a pixel.             *)

\* A blob count with the lower bound only.
clampDensityUnbounded(density) == Max(5, density)

\* numBlobs = Math.max(5, Math.min(density, 100))
clampDensity(density) == Max(5, Min(density, 100))

\* The smallest radial draw of the control points 0..j of the blob whose
\* first draw is number o.
RECURSIVE MinRadial(_, _, _)
MinRadial(stream, o, j) ==
    IF j = 0 THEN Draw(stream, o + 6)
    ELSE Min(Draw(stream, o + 6 + 2 * j), MinRadial(stream, o, j - 1))

\* The random draws of the blob whose first draw is number o, in the order
\* the code makes them: x, y, size, alpha, points, then per control point
\* the angular and the radial jitter.
BlobDraws(stream, o, width, height, options) ==
    LET points == 6 + (Draw(stream, o + 4) * 4) \div RandDen
    IN  [x      |-> Draw(stream, o) * width,
         y      |-> Draw(stream, o + 1) * height,
         size   |-> options.minSize * RandDen
                    + Draw(stream, o + 2) * (options.maxSize - options.minSize),
         alpha  |-> 200 + (500 * Draw(stream, o + 3)) \div RandDen,
         points |-> points,
         \* the smallest radial factor 0.6 + random * 0.8, times 10 RandDen
         reach  |-> 6 * RandDen + 8 * MinRadial(stream, o, points - 1),
         next   |-> o + 5 + 2 * points]

\* createRadialGradient throws IndexSizeError on a negative radius, and
\* addColorStop on an offset outside [0, 1].
blobThrows(blob, options) ==
    blob.size < 0 \/ options.softness < 0 \/ options.softness > 100

\* dx*dx + dy*dy <= r*r, without squaring an r that covers the raster anyway.
Within(dx, dy, r) ==
    r >= 0 /\ (r >= Abs(dx) + Abs(dy) \/ dx * dx + dy * dy <= r * r)

\* The alpha, in thousandths, a blob paints on the pixel (px, py).
blobAlphaAt(blob, options, px, py) ==
    LET dx == ((2 * px + 1) * RandDen - 2 * blob.x) * 50
        dy == ((2 * py + 1) * RandDen - 2 * blob.y) * 50
    IN  IF ~Within(dx * RandDen, dy * RandDen, blob.size * blob.reach * 10) THEN 0
        ELSE IF ~Within(dx, dy, blob.size * 100) \/ blob.size = 0 THEN 0
        ELSE IF Within(dx, dy, blob.size * options.softness) THEN blob.alpha
        ELSE blob.alpha \div 2

\* The blob canvas with pixels 1..k filled with one blob, source-over.
RECURSIVE fillBlob(_, _, _, _, _)
fillBlob(layer, blob, options, width, k) ==
    IF k = 0 THEN <<>>
    ELSE LET a == blobAlphaAt(blob, options, (k - 1) % width, (k - 1) \div width)
         IN  Append(fillBlob(layer, blob, options, width, k - 1),
                    a + MathRound(layer[k] * (1000 - a), 1000))

\* The blob canvas before the loop: transparent, no blob drawn.
newBlobCanvas(width, height) == [layer |-> [k \in 1..(width * height) |-> 0], i |-> 0]

\* The target canvas after the white blob canvas is drawn on it with
\* globalAlpha = intensity under globalCompositeOperation = blendMode.
addBlobs(canvas, ctx, layer, options) ==
    LET \* an assignment of an invalid value is ignored
        alpha == IF options.intensity \in 0..100 THEN options.intensity ELSE ctx.globalAlpha
        op == IF options.blendMode \in CanvasOps THEN options.blendMode
              ELSE ctx.globalCompositeOperation
        dst == getImageData(canvas).data
    IN  [canvas EXCEPT !.data =
            [k \in 1..(canvas.width * canvas.height) |->
                CompositePixel(dst[k], White,
                               MathRound(255 * layer[k] * alpha, 100000), op)]]

\* What addBlobs leaves of the context state: globalAlpha = 1 and
\* globalCompositeOperation = 'source-over'.
addBlobsCtx(ctx) ==
    [ctx EXCEPT !.globalAlpha = 100, !.globalCompositeOperation = "source-over"]

-----------------------------------------------------------------------------
(* ImageProcessor: the state after construction                            *)

\* this.originalImageData = null; an ImageData has no zero dimension.
Null == MkImage(0, 0, <<>>)

\* document.createElement('canvas') is 300 x 150.
DefaultCanvas == BlankCanvas(300, 150)

NoSettings == [colors |-> <<>>]

NoRandom == [stream |-> <<0, 0>>, next |-> 0]

NoBlobCanvas == [layer |-> <<>>, i |-> 0]

InitPipeline ==
    /\ heap = [orig |-> Null, img |-> Null, clean |-> Null]
    /\ imageDataRef = "img"
    /\ sourceCanvas = DefaultCanvas
    /\ processCanvas = DefaultCanvas
    /\ processCtx = DefaultCtx
    /\ pc = "idle"
    /\ settings = NoSettings
    /\ result = "none"
    /\ stages = <<>>
    /\ loaded = Null
    /\ preDither = Null
    /\ ditherOut = Null
    /\ numBlobs = 0
    /\ blobCanvas = NoBlobCanvas
    /\ random = NoRandom
    /\ loadResult = "none"

-----------------------------------------------------------------------------
(* ImageProcessor.process: the settings and what each stage reads of them  *)

\* The defaults of the destructuring of `settings`; a colour is the
\* sequence of its six hex digits.
DefaultSettings ==
    [colors |-> <<<<0, 0, 0, 0, 0, 0>>, <<15, 15, 15, 15, 15, 15>>>>,
     ditherType |-> "floyd-steinberg", ditherStrength |-> 100, orderedMatrixSize |-> 4,
     pixelScale |-> 1, posterizeEnabled |-> FALSE, posterizeLevels |-> 4,
     posterizeMode |-> "luminance", posterizeUsePalette |-> TRUE,
     blobEnabled |-> TRUE, blobIntensity |-> 30, blobDensity |-> 15,
     blobSizeMin |-> 50, blobSizeMax |-> 200, blobSoftness |-> 60,
     blobBlendMode |-> "overlay", noiseEnabled |-> FALSE, noiseAmount |-> 10,
     originalBlend |-> 0]

\* A palette with fewer than two colours replaced by the default one.
PaletteDefaulted(s) ==
    IF Len(s.colors) < 2 THEN <<Black, White>>
    ELSE [i \in 1..Len(s.colors) |-> hexToRgb(s.colors[i])]

\* const palette = colors.map(c => ColorUtils.hexToRgb(c))
Palette(s) == [i \in 1..Len(s.colors) |-> hexToRgb(s.colors[i])]

\* Math.floor(orig / pixelScale)
WorkSize(orig, s) == [width |-> orig.width \div s.pixelScale, height |-> orig.height \div s.pixelScale]

\* new ImageData(new Uint8ClampedArray(from.data), ...) bound to the local
\* `imageData`, with the copy replaced by a second reference to the object.
aliasImageData(h, from) == [ref |-> from, heap |-> h]

\* new ImageData(new Uint8ClampedArray(from.data), ...) bound to the local
\* `imageData`: a new object with the same bytes.
copyImageData(h, from) == [ref |-> "img", heap |-> [h EXCEPT !.img = h[from]]]

\* Step 0, pixelScale > 1: the source canvas drawn onto a canvas of the
\* working size, and read back.
Downscale(source, size) ==
    getImageData(drawImage(BlankCanvas(size.width, size.height), DefaultCtx, source))

\* if (ditherStrength >= 0)
ditherAppliesFromZero(s) == s.ditherStrength >= 0

\* if (ditherStrength > 0)
ditherApplies(s) == s.ditherStrength > 0

\* 'none' quantizes only when posterization has not mapped to the palette.
strategyRuns(s) ==
    s.ditherType # "none" \/ ~s.posterizeEnabled \/ ~s.posterizeUsePalette

\* The switch on ditherType: the exception it raises, "" if none.
ditherThrows(imageData, s, palette) ==
    IF s.ditherType = "ordered"
    THEN IF orderedDitherThrows(imageData, palette, s.orderedMatrixSize) THEN "TypeError" ELSE ""
    ELSE IF strategyRuns(s) /\ closestColorThrows(imageData, palette) THEN "TypeError" ELSE ""

\* The switch on ditherType: the raster it leaves in `imageData`.
dither(imageData, s, palette) ==
    CASE s.ditherType = "floyd-steinberg" -> floydSteinberg(imageData, palette)
      [] s.ditherType = "ordered"         -> orderedDither(imageData, palette, s.orderedMatrixSize)
      [] s.ditherType = "atkinson"        -> atkinson(imageData, palette)
      [] s.ditherType = "none"            -> IF strategyRuns(s) THEN quantize(imageData, palette)
                                             ELSE imageData
      [] OTHER                            -> floydSteinberg(imageData, palette)

\* if (ditherStrength < 100 && ditherType !== 'none'), inside Step 2
strengthBlendApplies(s) ==
    ditherApplies(s) /\ s.ditherStrength < 100 /\ s.ditherType # "none"

\* if (blobEnabled && blobIntensity > 0)
overlayApplies(s) == s.blobEnabled /\ s.blobIntensity > 0

\* The options object handed to addBlobs; intensity and softness stay in
\* percent.
blobOptions(s) ==
    [intensity |-> s.blobIntensity, density |-> s.blobDensity, minSize |-> s.blobSizeMin,
     maxSize |-> s.blobSizeMax, softness |-> s.blobSoftness, blendMode |-> s.blobBlendMode]

\* if (originalBlend > 0), with an upper clamp at 100 that the code lacks
originalBlendClamped(s) == Min(s.originalBlend, 100)

\* The blend amount of Step 5, in percent: originalBlend / 100 as it is.
originalBlendAmount(s) == s.originalBlend

-----------------------------------------------------------------------------
(* ImageProcessor: the inputs explored                                     *)

\* The rasters loadImage stores: a 2x2 opaque one, a 2x1 one with a
\* translucent pixel, and a 2x2 one of one translucent colour.
Images ==
    { MkImage(2, 2, <<<<200, 30, 60, 255>>, <<128, 128, 128, 255>>,
                      <<0, 0, 0, 255>>, <<255, 255, 255, 255>>>>),
      MkImage(2, 1, <<<<90, 140, 200, 255>>, <<255, 255, 255, 128>>>>),
      MkImage(2, 2, <<<<255, 255, 255, 128>>, <<255, 255, 255, 128>>,
                      <<255, 255, 255, 128>>, <<255, 255, 255, 128>>>>) }

\* The initial colours of the application, a third colour, and the
\* settings every explored run starts from: overlay off, blobs of 1 to 2
\* pixels.
Hex0a0a0a == <<0, 10, 0, 10, 0, 10>>

Hexf5f5f5 == <<15, 5, 15, 5, 15, 5>>

Hexc81e3c == <<12, 8, 1, 14, 3, 12>>

BaseSettings ==
    [DefaultSettings EXCEPT !.colors = <<Hex0a0a0a, Hexf5f5f5>>, !.blobEnabled = FALSE,
                            !.blobSizeMin = 1, !.blobSizeMax = 2]

DitherTypes == {"floyd-steinberg", "ordered", "atkinson", "none", "riemersma"}

PosterizeModes == {"luminance", "per-channel", "artistic"}

\* Dither kind and strength, with and without a per-channel posterization.
DitherSettings ==
    { [BaseSettings EXCEPT !.ditherType = t, !.ditherStrength = d, !.posterizeEnabled = e,
                           !.posterizeLevels = 2, !.posterizeMode = "per-channel",
                           !.posterizeUsePalette = FALSE] :
        t \in DitherTypes, d \in {-20, 0, 40, 100, 130}, e \in BOOLEAN }

\* Palettes of 0, 1 and 3 colours.
PaletteSettings ==
    { [BaseSettings EXCEPT !.colors = c, !.ditherType = t, !.ditherStrength = d,
                           !.posterizeEnabled = e] :
        c \in {<<>>, <<Hexc81e3c>>, <<Hexf5f5f5, Hexc81e3c, Hex0a0a0a>>},
        t \in {"floyd-steinberg", "ordered", "none"}, d \in {0, 100}, e \in BOOLEAN }

\* Posterization alone, then quantized unless it mapped to the palette.
PosterizeSettings ==
    { [BaseSettings EXCEPT !.ditherType = "none", !.posterizeEnabled = TRUE,
                           !.posterizeLevels = l, !.posterizeMode = m,
                           !.posterizeUsePalette = u] :
        l \in {1, 2, 3, 16, 17}, m \in PosterizeModes, u \in BOOLEAN }

PixelScaleSettings ==
    { [BaseSettings EXCEPT !.pixelScale = p, !.ditherType = t, !.ditherStrength = d] :
        p \in {2, 3}, t \in {"floyd-steinberg", "none"}, d \in {50, 100} }

MatrixSettings ==
    { [BaseSettings EXCEPT !.ditherType = "ordered", !.orderedMatrixSize = m] : m \in {0, 1, 2, 3, 8} }

OverlaySettings ==
    { [BaseSettings EXCEPT !.blobEnabled = TRUE, !.blobDensity = n, !.blobBlendMode = b] :
        n \in {3, 5, 100, 120}, b \in {"overlay", "multiply", "normal"} }
    \cup { [BaseSettings EXCEPT !.blobEnabled = TRUE, !.blobSoftness = 150],
           [BaseSettings EXCEPT !.blobEnabled = TRUE, !.blobIntensity = 0],
           [BaseSettings EXCEPT !.blobEnabled = TRUE, !.blobSizeMin = 2, !.blobSizeMax = 1],
           [BaseSettings EXCEPT !.blobEnabled = TRUE, !.blobSizeMin = -2, !.blobSizeMax = -1] }

NoiseSettings ==
    { [BaseSettings EXCEPT !.noiseEnabled = TRUE, !.noiseAmount = a] : a \in {0, 10} }

OriginalBlendSettings ==
    { [BaseSettings EXCEPT !.originalBlend = o, !.ditherType = t] :
        o \in {-10, 50, 100, 150}, t \in {"floyd-steinberg", "none"} }

Settings ==
    DitherSettings \cup PaletteSettings \cup PosterizeSettings \cup PixelScaleSettings
    \cup MatrixSettings \cup OverlaySettings \cup NoiseSettings \cup OriginalBlendSettings

\* The states the ambient generator may be in when a run that draws from
\* it starts; a run that draws nothing does not depend on it.
Randoms(s) ==
    IF overlayApplies(s) \/ s.noiseEnabled
    THEN {[stream |-> st, next |-> 0] : st \in {<<0, 0>>, <<5, 0>>, <<3, 7>>}}
    ELSE {NoRandom}

-----------------------------------------------------------------------------
(* ImageProcessor: loadImage, clear and the steps of process()             *)

\* Between two calls of process(): none made yet, returned, or thrown.
Quiescent == {"idle", "done", "failed"}

\* The positions inside a call of process().
Running == {"step0", "step1", "step2", "blend", "put", "step3", "blobs", "step4", "step5"}

\* The statement order of process(): the position after position p.
NextStageNoiseFirst(p) ==
    CASE p = "step0" -> "step1" [] p = "step1" -> "step2" [] p = "step2" -> "blend"
      [] p = "blend" -> "put"   [] p = "put" -> "step4"   [] p = "step4" -> "step3"
      [] p = "step3" -> "step5" [] OTHER -> "done"

NextStage(p) ==
    CASE p = "step0" -> "step1" [] p = "step1" -> "step2" [] p = "step2" -> "blend"
      [] p = "blend" -> "put"   [] p = "put" -> "step3"   [] p = "step3" -> "step4"
      [] p = "step4" -> "step5" [] OTHER -> "done"

\* if (!this.originalImageData), with the test dropped
NoImageLoadedNever(h) == FALSE

\* if (!this.originalImageData)
NoImageLoaded(h) == h.orig = Null

\* The object the local `imageData` refers to, and an in-place write to it.
Working == heap[imageDataRef]

SetWorking(v) == [heap EXCEPT ![imageDataRef] = v]

\* An exception leaves process(): the call is over, the state stays as the
\* statements before the throw left it.
Throw(e) == pc' = "failed" /\ result' = e

\* What a load or a clear leaves of the last call: nothing.
ForgetRun ==
    /\ pc' = "idle"
    /\ settings' = NoSettings
    /\ result' = "none"
    /\ stages' = <<>>
    /\ preDither' = Null
    /\ ditherOut' = Null
    /\ numBlobs' = 0
    /\ blobCanvas' = NoBlobCanvas
    /\ random' = NoRandom
    /\ imageDataRef' = "img"

\* img.onload of loadImage: both canvases take the image's size, the image
\* is drawn on the source canvas and read back as the stored original.
OnLoad(img) ==
    /\ LET source == ResizeCanvas(sourceCanvas, img.width, img.height)
           target == ResizeCanvas(processCanvas, img.width, img.height)
       IN  /\ sourceCanvas' = drawImage(source.canvas, source.ctx, img)
           /\ processCanvas' = target.canvas
           /\ processCtx' = target.ctx
           /\ heap' = [orig |-> getImageData(sourceCanvas'), img |-> Null, clean |-> Null]
           /\ loaded' = heap'.orig
    /\ loadResult' = "resolved"
    /\ ForgetRun

\* A load whose image has arrived.
LoadImage ==
    /\ pc \in Quiescent
    /\ \E img \in Images : OnLoad(img)
    /\ UNCHANGED <<fnVars, uiVars>>

\* An onerror that drops the stored original.
LoadErrorDropsOriginal ==
    /\ pc \in Quiescent
    /\ loadResult' = "rejected"
    /\ heap' = [heap EXCEPT !.orig = Null]
    /\ UNCHANGED <<imageDataRef, sourceCanvas, processCanvas, processCtx, pc, settings,
                   result, stages, loaded, preDither, ditherOut, numBlobs, blobCanvas, random,
                   fnVars, uiVars>>

\* img.onerror of loadImage: the promise is rejected and nothing else is
\* touched.
LoadError ==
    /\ pc \in Quiescent
    /\ loadResult' = "rejected"
    /\ UNCHANGED <<heap, imageDataRef, sourceCanvas, processCanvas, processCtx, pc, settings,
                   result, stages, loaded, preDither, ditherOut, numBlobs, blobCanvas, random,
                   fnVars, uiVars>>

\* clear()
Clear ==
    /\ pc \in Quiescent
    /\ heap' = [orig |-> Null, img |-> Null, clean |-> Null]
    /\ sourceCanvas' = ResizeCanvas(sourceCanvas, 1, 1).canvas
    /\ processCanvas' = ResizeCanvas(processCanvas, 1, 1).canvas
    /\ processCtx' = ResizeCanvas(processCanvas, 1, 1).ctx
    /\ loaded' = Null
    /\ ForgetRun
    /\ UNCHANGED <<loadResult, fnVars, uiVars>>

\* process(settings), up to the first stage: the no-image test, the
\* destructuring and the palette.
ProcessCall ==
    /\ pc \in Quiescent
    /\ \E s \in Settings : \E r \in Randoms(s) :
          /\ settings' = s
          /\ random' = r
    /\ stages' = <<>>
    /\ preDither' = Null
    /\ ditherOut' = Null
    /\ blobCanvas' = NoBlobCanvas
    /\ imageDataRef' = "img"
    /\ IF NoImageLoaded(heap)
       THEN Throw("No image loaded") /\ UNCHANGED heap
       ELSE /\ pc' = "step0"
            /\ result' = "none"
            /\ heap' = [heap EXCEPT !.img = Null, !.clean = Null]
    /\ UNCHANGED <<sourceCanvas, processCanvas, processCtx, loaded, numBlobs, loadResult, fnVars, uiVars>>

\* Step 0 and the clean copy: the working raster is the source canvas
\* scaled down, or a copy of the original.
Step0 ==
    /\ pc = "step0"
    /\ LET size == WorkSize(heap.orig, settings)
       IN  IF settings.pixelScale > 1
           THEN IF getImageDataThrows(size.width, size.height)
                THEN Throw("IndexSizeError") /\ UNCHANGED <<heap, imageDataRef, stages>>
                ELSE LET small == Downscale(getImageData(sourceCanvas), size)
                     IN  /\ heap' = [heap EXCEPT !.img = small, !.clean = small]
                         /\ imageDataRef' = "img"
                         /\ stages' = Append(stages, "pixelate-down")
                         /\ pc' = NextStage(pc)
                         /\ UNCHANGED result
           ELSE LET c == copyImageData(heap, "orig")
                IN  /\ heap' = [c.heap EXCEPT !.clean = c.heap[c.ref]]
                    /\ imageDataRef' = c.ref
                    /\ pc' = NextStage(pc)
                    /\ UNCHANGED <<result, stages>>
    /\ UNCHANGED <<sourceCanvas, processCanvas, processCtx, settings, loaded, preDither,
                   ditherOut, numBlobs, blobCanvas, random, loadResult, fnVars, uiVars>>

\* Step 1: posterization, in place.
Step1 ==
    /\ pc = "step1"
    /\ IF settings.posterizeEnabled
       THEN /\ heap' = SetWorking(posterize(Working, settings.posterizeLevels,
                                            settings.posterizeMode,
                                            IF settings.posterizeUsePalette
                                            THEN Palette(settings) ELSE NullPalette))
            /\ stages' = Append(stages, "posterize")
       ELSE UNCHANGED <<heap, stages>>
    /\ pc' = NextStage(pc)
    /\ UNCHANGED <<imageDataRef, sourceCanvas, processCanvas, processCtx, settings, result,
                   loaded, preDither, ditherOut, numBlobs, blobCanvas, random, loadResult, fnVars, uiVars>>

\* Step 2, the switch: the selected strategy, in place.
Step2 ==
    /\ pc = "step2"
    /\ preDither' = Working
    /\ IF ditherApplies(settings)
       THEN LET palette == Palette(settings)
                thrown == ditherThrows(Working, settings, palette)
                out == dither(Working, settings, palette)
            IN  /\ heap' = SetWorking(out)
                /\ IF thrown # ""
                   THEN Throw(thrown) /\ UNCHANGED <<stages, ditherOut>>
                   ELSE /\ pc' = NextStage(pc)
                        /\ ditherOut' = out
                        /\ stages' = IF strategyRuns(settings) THEN Append(stages, "dither")
                                     ELSE stages
                        /\ UNCHANGED result
       ELSE /\ pc' = NextStage(pc)
            /\ UNCHANGED <<heap, stages, ditherOut, result>>
    /\ UNCHANGED <<imageDataRef, sourceCanvas, processCanvas, processCtx, settings, loaded,
                   numBlobs, blobCanvas, random, loadResult, fnVars, uiVars>>

\* Step 2, the strength blend: toward cleanOriginal by (100 - strength)/100.
StrengthBlend ==
    /\ pc = "blend"
    /\ IF strengthBlendApplies(settings)
       THEN /\ heap' = SetWorking(blendWithOriginal(Working, heap.clean,
                                                    100 - settings.ditherStrength))
            /\ stages' = Append(stages, "strength-blend")
       ELSE UNCHANGED <<heap, stages>>
    /\ pc' = NextStage(pc)
    /\ UNCHANGED <<imageDataRef, sourceCanvas, processCanvas, processCtx, settings, result,
                   loaded, preDither, ditherOut, numBlobs, blobCanvas, random, loadResult, fnVars, uiVars>>

\* The process canvas takes the original's size and receives the working
\* raster: scaled up without smoothing through a temporary canvas, or put.
PutOnCanvas ==
    /\ pc = "put"
    /\ LET target == ResizeCanvas(processCanvas, heap.orig.width, heap.orig.height)
           tempCanvas == putImageData(BlankCanvas(Working.width, Working.height), Working)
       IN  IF settings.pixelScale > 1
           THEN /\ processCanvas' = drawImage(target.canvas,
                                              [target.ctx EXCEPT !.imageSmoothingEnabled = FALSE],
                                              getImageData(tempCanvas))
                /\ processCtx' = [target.ctx EXCEPT !.imageSmoothingEnabled = TRUE]
                /\ stages' = Append(stages, "pixelate-up")
           ELSE /\ processCanvas' = putImageData(target.canvas, Working)
                /\ processCtx' = target.ctx
                /\ UNCHANGED stages
    /\ pc' = NextStage(pc)
    /\ UNCHANGED <<heap, imageDataRef, sourceCanvas, settings, result, loaded, preDither,
                   ditherOut, numBlobs, blobCanvas, random, loadResult, fnVars, uiVars>>

\* Step 3: addBlobs up to its loop, or the canvas read back into
\* `imageData` when the overlay is off.
Step3 ==
    /\ pc = "step3"
    /\ IF overlayApplies(settings)
       THEN /\ numBlobs' = clampDensity(blobOptions(settings).density)
            /\ blobCanvas' = newBlobCanvas(heap.orig.width, heap.orig.height)
            /\ pc' = "blobs"
            /\ UNCHANGED <<heap, imageDataRef>>
       ELSE /\ heap' = [heap EXCEPT !.img = getImageData(processCanvas)]
            /\ imageDataRef' = "img"
            /\ pc' = NextStage(pc)
            /\ UNCHANGED <<numBlobs, blobCanvas>>
    /\ UNCHANGED <<sourceCanvas, processCanvas, processCtx, settings, result, stages, loaded,
                   preDither, ditherOut, random, loadResult, fnVars, uiVars>>

\* addBlobs, one iteration of the loop: the draws, the gradient, the fill.
DrawBlob ==
    /\ pc = "blobs"
    /\ blobCanvas.i < numBlobs
    /\ LET options == blobOptions(settings)
           width == heap.orig.width
           height == heap.orig.height
           blob == BlobDraws(random.stream, random.next, width, height, options)
       IN  IF blobThrows(blob, options)
           THEN /\ Throw("IndexSizeError")
                /\ random' = [random EXCEPT !.next = @ + 4]
                /\ UNCHANGED blobCanvas
           ELSE /\ blobCanvas' = [layer |-> fillBlob(blobCanvas.layer, blob, options, width,
                                                    width * height),
                                  i |-> blobCanvas.i + 1]
                /\ random' = [random EXCEPT !.next = blob.next]
                /\ UNCHANGED <<pc, result>>
    /\ UNCHANGED <<heap, imageDataRef, sourceCanvas, processCanvas, processCtx, settings,
                   stages, loaded, preDither, ditherOut, numBlobs, loadResult, fnVars, uiVars>>

\* addBlobs after the loop: the blob canvas drawn on the process canvas;
\* then the canvas read back into `imageData`.
ApplyBlobs ==
    /\ pc = "blobs"
    /\ blobCanvas.i >= numBlobs
    /\ processCanvas' = addBlobs(processCanvas, processCtx, blobCanvas.layer,
                                 blobOptions(settings))
    /\ processCtx' = addBlobsCtx(processCtx)
    /\ heap' = [heap EXCEPT !.img = getImageData(processCanvas')]
    /\ imageDataRef' = "img"
    /\ stages' = Append(stages, "overlay")
    /\ pc' = NextStage("step3")
    /\ UNCHANGED <<sourceCanvas, settings, result, loaded, preDither, ditherOut, numBlobs,
                   blobCanvas, random, loadResult, fnVars, uiVars>>

\* Step 4: noise, in place, then put on the canvas.
Step4 ==
    /\ pc = "step4"
    /\ IF settings.noiseEnabled
       THEN LET noisy == addNoise(Working, settings.noiseAmount, random.stream, random.next)
            IN  /\ heap' = SetWorking(noisy)
                /\ processCanvas' = putImageData(processCanvas, noisy)
                /\ random' = [random EXCEPT !.next = @ + Len(noisy.data)]
                /\ stages' = Append(stages, "noise")
       ELSE UNCHANGED <<heap, processCanvas, random, stages>>
    /\ pc' = NextStage(pc)
    /\ UNCHANGED <<imageDataRef, sourceCanvas, processCtx, settings, result, loaded,
                   preDither, ditherOut, numBlobs, blobCanvas, loadResult, fnVars, uiVars>>

\* Step 5: the blend with a copy of the original, and the return.
Step5 ==
    /\ pc = "step5"
    /\ IF settings.originalBlend > 0
       THEN LET blended == blendWithOriginal(getImageData(processCanvas), heap.orig,
                                             originalBlendAmount(settings))
            IN  /\ heap' = [heap EXCEPT !.img = blended]
                /\ imageDataRef' = "img"
                /\ processCanvas' = putImageData(processCanvas, blended)
                /\ stages' = Append(stages, "original-blend")
       ELSE UNCHANGED <<heap, imageDataRef, processCanvas, stages>>
    /\ pc' = NextStage(pc)
    /\ result' = "ok"
    /\ UNCHANGED <<sourceCanvas, processCtx, settings, loaded, preDither, ditherOut,
                   numBlobs, blobCanvas, random, loadResult, fnVars, uiVars>>

\* The statements of a process() call under way.
Run ==
    Step0 \/ Step1 \/ Step2 \/ StrengthBlend \/ PutOnCanvas \/ Step3 \/ DrawBlob \/ ApplyBlobs
    \/ Step4 \/ Step5

\* new StateManager(): the palette of two colours; no palette call made yet.
InitStore ==
    /\ colors = <<Hex0a0a0a, Hexf5f5f5>>
    /\ storeCall = [op |-> "none", returned |-> "undefined", notified |-> FALSE]

\* new PicFixerApp(): no load under way, no timeout armed, no frame requested.
InitApp ==
    /\ storeSettings = [ditherType |-> "floyd-steinberg", ditherStrength |-> 100]
    /\ load = {}
    /\ timers = 0
    /\ raf = <<>>
    /\ indicator = FALSE
    /\ burst = [calls |-> 0, fired |-> 0]
    /\ lastRun = [origin |-> "none", handed |-> [colors |-> colors, settings |-> storeSettings],
                  outcome |-> "none"]

InitUI == InitStore /\ InitApp

Init ==
    /\ InitPipeline
    /\ fnIn = Null
    /\ fnPal = <<>>
    /\ fnOp = <<"none">>
    /\ fnOut = Null
    /\ InitUI

Next ==
    \/ LoadImage
    \/ LoadError
    \/ Clear
    \/ ProcessCall
    \/ Step0
    \/ Step1
    \/ Step2
    \/ StrengthBlend
    \/ PutOnCanvas
    \/ Step3
    \/ DrawBlob
    \/ ApplyBlobs
    \/ Step4
    \/ Step5

Spec == Init /\ [][Next]_vars

\* A call under way leaves the position it is at.
Advance == pc \in Running /\ \E p \in (Running \cup Quiescent) \ {pc} : pc' = p

\* process() is synchronous: a call under way runs on to its return or to
\* an exception without yielding.
FairSpec == Spec /\ WF_pc(Advance)

\* process() as a function of the stored original and the settings, for a
\* run without overlay and noise that raises nothing: the stages composed
\* on a fresh canvas.
RunOutput(orig, s) ==
    LET palette == [i \in 1..Len(s.colors) |-> hexToRgb(s.colors[i])]
        down == IF s.pixelScale > 1
                THEN getImageData(drawImage(BlankCanvas(orig.width \div s.pixelScale,
                                                        orig.height \div s.pixelScale),
                                            DefaultCtx, orig))
                ELSE orig
        posterized == IF s.posterizeEnabled
                      THEN posterize(down, s.posterizeLevels, s.posterizeMode,
                                     IF s.posterizeUsePalette THEN palette ELSE NullPalette)
                      ELSE down
        dithered == IF s.ditherStrength > 0 THEN dither(posterized, s, palette) ELSE posterized
        blended == IF s.ditherStrength > 0 /\ s.ditherStrength < 100 /\ s.ditherType # "none"
                   THEN blendWithOriginal(dithered, down, 100 - s.ditherStrength)
                   ELSE dithered
        canvas == IF s.pixelScale > 1
                  THEN drawImage(BlankCanvas(orig.width, orig.height),
                                 [DefaultCtx EXCEPT !.imageSmoothingEnabled = FALSE], blended)
                  ELSE putImageData(BlankCanvas(orig.width, orig.height), blended)
    IN  IF s.originalBlend > 0
        THEN blendWithOriginal(getImageData(canvas), orig, s.originalBlend)
        ELSE getImageData(canvas)

-----------------------------------------------------------------------------
(* Unit harness: one engine function applied to one raster and palette     *)

\* The largest raster of the harness, in pixels.
MaxPixels == 4

\* The RGBA values the harness rasters are made of.
FnPixels ==
    {<<0, 0, 0, 255>>, <<128, 128, 128, 255>>, <<255, 255, 255, 128>>, <<200, 30, 60, 0>>,
     <<64, 192, 127, 255>>}

FnShapes == {d \in (1..MaxPixels) \X (1..MaxPixels) : d[1] * d[2] <= MaxPixels}

FnRasters == UNION {{MkImage(d[1], d[2], px) : px \in [1..(d[1] * d[2]) -> FnPixels]} : d \in FnShapes}

\* Palettes of 2 to 5 colours.
FnPalettes ==
    { <<Black, White>>,
      <<White, Black>>,
      <<Black, <<255, 0, 0>>, White>>,
      <<<<129, 128, 128>>, <<127, 128, 128>>, Black>>,
      <<<<0, 0, 255>>, <<255, 0, 0>>, <<60, 60, 60>>, <<0, 255, 0>>>>,
      <<<<10, 10, 10>>, <<245, 245, 245>>, <<128, 128, 128>>, <<200, 30, 60>>, <<127, 127, 127>>>> }

\* Matrix sizes the harness passes to orderedDither.
FnMatrixSizes == {2, 4, 8}

InitFn ==
    /\ InitPipeline
    /\ fnIn \in FnRasters
    /\ fnPal \in FnPalettes
    /\ fnOp = <<"none">>
    /\ fnOut = fnIn
    /\ InitUI

ApplyQuantize ==
    /\ fnOp = <<"none">>
    /\ fnOp' = <<"quantize">>
    /\ fnOut' = quantize(fnIn, fnPal)
    /\ UNCHANGED <<fnIn, fnPal, pipeVars, uiVars>>

ApplyFloydSteinberg ==
    /\ fnOp = <<"none">>
    /\ fnOp' = <<"floydSteinberg">>
    /\ fnOut' = floydSteinberg(fnIn, fnPal)
    /\ UNCHANGED <<fnIn, fnPal, pipeVars, uiVars>>

ApplyAtkinson ==
    /\ fnOp = <<"none">>
    /\ fnOp' = <<"atkinson">>
    /\ fnOut' = atkinson(fnIn, fnPal)
    /\ UNCHANGED <<fnIn, fnPal, pipeVars, uiVars>>

ApplyOrderedDither ==
    /\ fnOp = <<"none">>
    /\ \E matrixSize \in FnMatrixSizes :
          /\ fnOp' = <<"orderedDither", matrixSize>>
          /\ fnOut' = orderedDither(fnIn, fnPal, matrixSize)
    /\ UNCHANGED <<fnIn, fnPal, pipeVars, uiVars>>

\* quantize applied to its own result.
ApplyQuantizeAgain ==
    /\ fnOp = <<"quantize">>
    /\ fnOp' = <<"quantize", "quantize">>
    /\ fnOut' = quantize(fnOut, fnPal)
    /\ UNCHANGED <<fnIn, fnPal, pipeVars, uiVars>>

\* findClosestColor of the colour of the raster's first pixel.
ApplyFindClosestColor ==
    /\ fnOp = <<"none">>
    /\ fnOp' = <<"findClosestColor">>
    /\ fnOut' = [color |-> findClosestColor(fnIn.data[1][1] * FP, fnIn.data[1][2] * FP,
                                            fnIn.data[1][3] * FP, fnPal)]
    /\ UNCHANGED <<fnIn, fnPal, pipeVars, uiVars>>

\* The levels, noise amounts, random streams and blend percentages the
\* harness passes to the effects.
FnLevels == {2, 3}

FnAmounts == {0, 10}

FnStreams == {<<0, 0>>, <<5, 0>>, <<3, 7>>}

FnBlendPcts == {0, 40, 100}

ApplyPosterize ==
    /\ fnOp = <<"none">>
    /\ \E levels \in FnLevels, mode \in PosterizeModes, usePalette \in BOOLEAN :
          /\ fnOp' = <<"posterize", levels, mode, usePalette>>
          /\ fnOut' = posterize(fnIn, levels, mode, IF usePalette THEN fnPal ELSE NullPalette)
    /\ UNCHANGED <<fnIn, fnPal, pipeVars, uiVars>>

ApplyAddNoise ==
    /\ fnOp = <<"none">>
    /\ \E amount \in FnAmounts, stream \in FnStreams :
          /\ fnOp' = <<"addNoise", amount, stream>>
          /\ fnOut' = addNoise(fnIn, amount, stream, 0)
    /\ UNCHANGED <<fnIn, fnPal, pipeVars, uiVars>>

\* blendWithOriginal against a raster of one colour and the same size.
ApplyBlendWithOriginal ==
    /\ fnOp = <<"none">>
    /\ \E c \in FnPixels, blendPct \in FnBlendPcts :
          /\ fnOp' = <<"blendWithOriginal", c, blendPct>>
          /\ fnOut' = blendWithOriginal(fnIn, [fnIn EXCEPT !.data = [i \in 1..Len(fnIn.data) |-> c]],
                                        blendPct)
    /\ UNCHANGED <<fnIn, fnPal, pipeVars, uiVars>>

\* Pixels of luminance 0 that are not black.
FnDarkPixels == {<<2, 0, 3, 255>>, <<0, 0, 8, 128>>}

\* posterize in luminance mode, without a palette, of the raster with a dark
\* pixel in the first place.
ApplyPosterizeDark ==
    /\ fnOp = <<"none">>
    /\ \E levels \in FnLevels, px \in FnDarkPixels :
          /\ fnOp' = <<"posterizeDark", levels, px>>
          /\ fnOut' = posterize([fnIn EXCEPT !.data[1] = px], levels, "luminance", NullPalette)
    /\ UNCHANGED <<fnIn, fnPal, pipeVars, uiVars>>

NextFn ==
    \/ ApplyQuantize
    \/ ApplyQuantizeAgain
    \/ ApplyFloydSteinberg
    \/ ApplyAtkinson
    \/ ApplyOrderedDither
    \/ ApplyFindClosestColor
    \/ ApplyPosterize
    \/ ApplyPosterizeDark
    \/ ApplyAddNoise
    \/ ApplyBlendWithOriginal

SpecFn == InitFn /\ [][NextFn]_vars

-----------------------------------------------------------------------------
(* StateManager: the palette of the store                                  *)

Hex808080 == <<8, 0, 8, 0, 8, 0>>

\* The colours the palette calls are made with ('#808080' is addColor's
\* default) and their index arguments.
StoreColors == {Hex808080, Hexc81e3c}

StoreIndexes == -1..5

\* Array.prototype.splice: where a start argument falls in an array of len
\* entries.
SpliceStart(start, len) == IF start < 0 THEN Max(len + start, 0) ELSE Min(start, len)

\* colors.splice(start, 0, color)
SpliceInsert(cs, start, color) ==
    LET at == SpliceStart(start, Len(cs))
    IN  SubSeq(cs, 1, at) \o <<color>> \o SubSeq(cs, at + 1, Len(cs))

\* colors.splice(start, 1)
SpliceRemove(cs, start) ==
    LET at == SpliceStart(start, Len(cs))
    IN  IF at >= Len(cs) THEN cs ELSE SubSeq(cs, 1, at) \o SubSeq(cs, at + 2, Len(cs))

\* colors[index] = color on a copy: an index past the end lengthens the array
\* and leaves undefined entries between; a negative index names no entry.
AssignIndex(cs, index, color) ==
    IF index < 0 THEN cs
    ELSE [k \in 1..Max(Len(cs), index + 1) |->
             IF k = index + 1 THEN color ELSE IF k <= Len(cs) THEN cs[k] ELSE Undefined]

addColor(cs, color) ==
    IF Len(cs) < 5
    THEN [colors |-> SpliceInsert(cs, Len(cs) - 1, color), returned |-> "true", notified |-> TRUE]
    ELSE [colors |-> cs, returned |-> "false", notified |-> FALSE]

removeColor(cs, index) ==
    IF Len(cs) > 2
    THEN [colors |-> SpliceRemove(cs, index), returned |-> "true", notified |-> TRUE]
    ELSE [colors |-> cs, returned |-> "false", notified |-> FALSE]

updateColor(cs, index, color) ==
    [colors |-> AssignIndex(cs, index, color), returned |-> "undefined", notified |-> TRUE]

AddColor ==
    \E color \in StoreColors :
        LET out == addColor(colors, color)
        IN  /\ colors' = out.colors
            /\ storeCall' = [op |-> "addColor", returned |-> out.returned, notified |-> out.notified]
            /\ UNCHANGED <<pipeVars, fnVars, appVars>>

RemoveColor ==
    \E index \in StoreIndexes :
        LET out == removeColor(colors, index)
        IN  /\ colors' = out.colors
            /\ storeCall' = [op |-> "removeColor", returned |-> out.returned, notified |-> out.notified]
            /\ UNCHANGED <<pipeVars, fnVars, appVars>>

UpdateColor ==
    \E index \in StoreIndexes, color \in StoreColors :
        LET out == updateColor(colors, index, color)
        IN  /\ colors' = out.colors
            /\ storeCall' = [op |-> "updateColor", returned |-> out.returned, notified |-> out.notified]
            /\ UNCHANGED <<pipeVars, fnVars, appVars>>

NextStore ==
    \/ AddColor
    \/ RemoveColor
    \/ UpdateColor

SpecStore == Init /\ [][NextStore]_vars

-----------------------------------------------------------------------------
(* PicFixerApp: loading, the debounce timer and the frame callbacks         *)
(*                                                                         *)
(* The run a frame callback makes is kept as the settings it is handed and *)
(* whether it threw; the run itself is the subject of Spec.  Time is not   *)
(* measured: an armed timeout may fire at any later step, and a call made  *)
(* while it is armed is a call within the delay.  The user's inputs wait   *)
(* while MaxFrames callbacks are pending and a burst ends after MaxBurst   *)
(* calls; what the browser has scheduled is never held back.              *)

MaxBurst == 3

MaxFrames == 2

\* What loadImage can be handed: a File, URL or Image that decodes, one that
\* does not, and a value that is none of the three.
SourceKinds == {"decodable", "broken", "other"}

\* The image a decodable source holds.
AppImage == MkImage(2, 1, <<<<90, 140, 200, 255>>, <<255, 255, 255, 128>>>>)

\* The keys of state.settings the handlers below update.
StoreSettings == [ditherType : {"floyd-steinberg", "none"}, ditherStrength : {100, 40}]

\* updateSettings: the settings with the updates spread over them.
updateSettings(current, key, value) ==
    [k \in DOMAIN current |-> IF k = key THEN value ELSE current[k]]

\* getProcessingSettings: the palette and the settings of the store.
getProcessingSettings == [colors |-> colors, settings |-> storeSettings]

hasImage == heap.orig # Null

\* A clearTimeout that cancels nothing.
clearTimeoutNoop(armed) == armed

\* clearTimeout(this.processDebounceTimer) and setTimeout(...), on the number
\* of armed timeouts.
clearTimeout(armed) == 0

setTimeout(armed) == armed + 1

\* processImage up to its return: without an image nothing, else the
\* indicator is made active and a frame callback is requested.
ProcessImage(origin) ==
    IF hasImage
    THEN /\ indicator' = TRUE
         /\ raf' = Append(raf, origin)
    ELSE UNCHANGED <<indicator, raf>>

\* PicFixerApp.loadImage: processor.loadImage(source) builds the promise and
\* starts the image loading when source is a File, a string or an Image.
LoadCall ==
    /\ Len(raf) < MaxFrames
    /\ \E source \in SourceKinds \ load : load' = load \cup {source}
    /\ UNCHANGED <<pipeVars, fnVars, storeVars, storeSettings, timers, raf, indicator, burst, lastRun>>

\* img.onload, and the continuation of the await: processImage().
LoadResolves ==
    /\ "decodable" \in load
    /\ pc \in Quiescent
    /\ load' = load \ {"decodable"}
    /\ OnLoad(AppImage)
    /\ indicator' = TRUE
    /\ raf' = Append(raf, "direct")
    /\ UNCHANGED <<fnVars, storeVars, storeSettings, timers, burst, lastRun>>

\* img.onerror, and the catch of PicFixerApp.loadImage.
LoadRejects ==
    /\ "broken" \in load
    /\ load' = load \ {"broken"}
    /\ loadResult' = "rejected"
    /\ UNCHANGED <<heap, imageDataRef, sourceCanvas, processCanvas, processCtx, pc, settings,
                   result, stages, loaded, preDither, ditherOut, numBlobs, blobCanvas, random>>
    /\ UNCHANGED <<fnVars, storeVars, storeSettings, timers, raf, indicator, burst, lastRun>>

\* The strength slider's input handler: updateSettings, processImageDebounced.
StrengthInput ==
    /\ Len(raf) < MaxFrames
    /\ timers > 0 => burst.calls < MaxBurst
    /\ \E value \in {100, 40} : storeSettings' = updateSettings(storeSettings, "ditherStrength", value)
    /\ timers' = setTimeout(clearTimeout(timers))
    /\ burst' = IF timers > 0 THEN [burst EXCEPT !.calls = @ + 1] ELSE [calls |-> 1, fired |-> 0]
    /\ UNCHANGED <<pipeVars, fnVars, storeVars, load, raf, indicator, lastRun>>

\* The dither type select's change handler: updateSettings, processImage.
TypeChange ==
    /\ Len(raf) < MaxFrames
    /\ \E value \in {"floyd-steinberg", "none"} :
          storeSettings' = updateSettings(storeSettings, "ditherType", value)
    /\ ProcessImage("direct")
    /\ UNCHANGED <<pipeVars, fnVars, storeVars, load, timers, burst, lastRun>>

\* The timeout of processImageDebounced fires: processImage().
TimerFires ==
    /\ timers > 0
    /\ timers' = timers - 1
    /\ burst' = [burst EXCEPT !.fired = @ + 1]
    /\ ProcessImage("timer")
    /\ UNCHANGED <<pipeVars, fnVars, storeVars, storeSettings, load, lastRun>>

\* The frame callback of processImage: the run with the settings read now,
\* its error caught, then the indicator made inactive.
RunFrame ==
    /\ raf # <<>>
    /\ raf' = Tail(raf)
    /\ \E outcome \in {"ok", "threw"} :
          lastRun' = [origin |-> Head(raf), handed |-> getProcessingSettings, outcome |-> outcome]
    /\ indicator' = FALSE
    /\ UNCHANGED <<pipeVars, fnVars, storeVars, storeSettings, load, timers, burst>>

NextApp ==
    \/ LoadCall
    \/ LoadResolves
    \/ LoadRejects
    \/ StrengthInput
    \/ TypeChange
    \/ TimerFires
    \/ RunFrame

SpecApp == Init /\ [][NextApp]_vars

\* The browser delivers what it has scheduled: the load or error event of an
\* image whose src was set, a timeout that is armed, a requested frame.
Settle(source) == source \in load /\ load' = load \ {source}

Fire == timers > 0 /\ timers' = timers - 1

Frame == raf # <<>> /\ raf' = Tail(raf)

FairSpecApp ==
    /\ SpecApp
    /\ WF_load(Settle("decodable"))
    /\ WF_load(Settle("broken"))
    /\ WF_timers(Fire)
    /\ WF_raf(Frame)

-----------------------------------------------------------------------------
(* Claims                                                                  *)

DitherOps == {"quantize", "floydSteinberg", "atkinson", "orderedDither"}

\* C1: after any of the four dithering strategies on a raster and a palette
\* of 2 to 5 colours, the output has the input's width and height and the
\* RGB of every output pixel is an entry of the palette.
C1_PaletteMembership ==
    (fnOp[1] \in DitherOps /\ Len(fnPal) \in 2..5) =>
        /\ fnOut.width = fnIn.width
        /\ fnOut.height = fnIn.height
        /\ Len(fnOut.data) = fnIn.width * fnIn.height
        /\ \A i \in 1..Len(fnOut.data) : \E k \in 1..Len(fnPal) : RGB(fnOut.data[i]) = fnPal[k]

\* C1 witness: a 2x2 raster with a pixel that is no palette colour has been
\* error-diffused.
C1_Witness ==
    /\ fnOp[1] = "floydSteinberg"
    /\ fnIn.width = 2 /\ fnIn.height = 2
    /\ \E i \in 1..4 : \A k \in 1..Len(fnPal) : RGB(fnIn.data[i]) # fnPal[k]

\* A step that is a call of process(): load and clear leave no settings.
IsCall == pc \in Quiescent /\ settings' \in Settings

\* C2: a call of process() while no source raster is stored (none loaded
\* yet, or cleared) throws "No image loaded" and leaves the stored original,
\* both canvases and the context state exactly as they were; no stage runs.
C2_NoImageLoaded ==
    [][(IsCall /\ loaded = Null) =>
          /\ pc' = "failed"
          /\ result' = "No image loaded"
          /\ stages' = <<>>
          /\ UNCHANGED <<heap, sourceCanvas, processCanvas, processCtx>>]_vars

\* C2 witness: process() has failed for want of an image after a clear(),
\* which left the canvases 1 x 1.
C2_Witness ==
    /\ pc = "failed"
    /\ result = "No image loaded"
    /\ loaded = Null
    /\ processCanvas.width = 1 /\ processCanvas.height = 1

\* C3: in every state, in and between runs of process(), the stored
\* original has the width, height and bytes the last successful load stored.
C3_OriginalUntouched == heap.orig = loaded

\* C3 witness: a second or later stage of a run has rewritten the working
\* raster, which now differs from the stored original.
C3_Witness ==
    /\ pc = "done"
    /\ loaded # Null
    /\ "dither" \in {stages[i] : i \in 1..Len(stages)}
    /\ getImageData(processCanvas).data # loaded.data

\* The stages of the specification's diagram, in its order.
StageOrder ==
    <<"pixelate-down", "posterize", "dither", "strength-blend", "pixelate-up", "overlay",
      "noise", "original-blend">>

StageIndex(name) == CHOOSE i \in 1..Len(StageOrder) : StageOrder[i] = name

\* How far a position of process() is in the diagram: the number of stages
\* that can have run when it is reached.
PcRank(p) ==
    CASE p = "step0" -> 0 [] p = "step1" -> 1 [] p = "step2" -> 2 [] p = "blend" -> 3
      [] p = "put" -> 4   [] p = "step3" -> 5 [] p = "blobs" -> 5 [] p = "step4" -> 6
      [] p = "step5" -> 7 [] OTHER -> 8

\* The stages a run that raises nothing executes, read off the settings.
ExpectedStages(s) ==
    SelectSeq(StageOrder,
              LAMBDA n :
                  CASE n = "pixelate-down"  -> s.pixelScale > 1
                    [] n = "posterize"      -> s.posterizeEnabled
                    [] n = "dither"         -> s.ditherStrength > 0
                                               /\ (s.ditherType # "none" \/ ~s.posterizeEnabled
                                                   \/ ~s.posterizeUsePalette)
                    [] n = "strength-blend" -> s.ditherStrength > 0 /\ s.ditherStrength < 100
                                               /\ s.ditherType # "none"
                    [] n = "pixelate-up"    -> s.pixelScale > 1
                    [] n = "overlay"        -> s.blobEnabled /\ s.blobIntensity > 0
                    [] n = "noise"          -> s.noiseEnabled
                    [] OTHER                -> s.originalBlend > 0)

C4_StagesInOrder ==
    /\ \A i, j \in 1..Len(stages) : i < j => StageIndex(stages[i]) < StageIndex(stages[j])
    /\ pc \in Running => \A i \in 1..Len(stages) : StageIndex(stages[i]) <= PcRank(pc)
    /\ pc = "done" => stages = ExpectedStages(settings) /\ result = "ok"

C4_StepsForward ==
    pc \in Running =>
        \/ pc' = "failed"
        \/ PcRank(pc') > PcRank(pc)
        \/ pc = "step3" /\ pc' = "blobs"
        \/ pc = "blobs" /\ pc' = "blobs" /\ blobCanvas'.i = blobCanvas.i + 1

Deterministic(s) == ~(s.blobEnabled /\ s.blobIntensity > 0) /\ ~s.noiseEnabled

\* C5: whenever a run with overlay and noise disabled returns, the process
\* canvas holds exactly the raster the stages compute from the stored
\* original and the settings on a fresh canvas, whatever runs, loads and
\* clears came before: two such runs on the same original and settings
\* give the same bytes.
C5_NoLeakBetweenRuns ==
    (pc = "done" /\ Deterministic(settings)) =>
        getImageData(processCanvas) = RunOutput(loaded, settings)

\* C5 witness: a run at pixelScale 2 without overlay and noise has returned
\* after a 100-blob overlay run on the same original.
C5_Witness ==
    /\ pc = "done"
    /\ Deterministic(settings)
    /\ settings.pixelScale > 1
    /\ numBlobs = 100

ErrorDiffusionOrOrdered == {"floyd-steinberg", "ordered", "atkinson"}

\* C6: when the dither kind is floyd-steinberg, ordered or atkinson and
\* 0 < ditherStrength < 100, the raster leaving the strength blend is the
\* strategy's output blended, with weight (100 - ditherStrength)/100, with
\* the working raster as it entered the dither stage (after downscale and
\* posterization).
C6_BlendTowardPreDither ==
    (pc = "put" /\ settings.ditherType \in ErrorDiffusionOrOrdered
     /\ settings.ditherStrength > 0 /\ settings.ditherStrength < 100) =>
        Working = blendWithOriginal(ditherOut, preDither, 100 - settings.ditherStrength)

\* C6, where the code agrees with it: without posterization the raster that
\* entered the dither stage is the one saved as cleanOriginal.
C6_Witness ==
    /\ pc = "put"
    /\ settings.ditherType = "floyd-steinberg"
    /\ settings.ditherStrength = 40
    /\ ~settings.posterizeEnabled
    /\ Working = blendWithOriginal(ditherOut, preDither, 60)
    /\ Working # ditherOut

\* The output of the strategy the settings select, on raster r.
StrategyOutput(r, s) ==
    LET palette == [i \in 1..Len(s.colors) |-> hexToRgb(s.colors[i])]
    IN  CASE s.ditherType = "floyd-steinberg" -> floydSteinberg(r, palette)
          [] s.ditherType = "ordered"         -> orderedDither(r, palette, s.orderedMatrixSize)
          [] s.ditherType = "atkinson"        -> atkinson(r, palette)

\* C7: for the kinds floyd-steinberg, ordered and atkinson, the raster
\* leaving the dither and strength-blend stages is, at ditherStrength 0, the
\* raster that entered the dither stage, no strategy having run, and, at
\* ditherStrength 100, the output of the selected strategy on that raster,
\* no blend having run.
C7_StrengthEnds ==
    (pc = "put" /\ settings.ditherType \in ErrorDiffusionOrOrdered) =>
        /\ settings.ditherStrength = 0 =>
              /\ Working = preDither
              /\ \A i \in 1..Len(stages) : stages[i] \notin {"dither", "strength-blend"}
        /\ settings.ditherStrength = 100 =>
              /\ Working = StrategyOutput(preDither, settings)
              /\ \A i \in 1..Len(stages) : stages[i] # "strength-blend"

\* C7 witness: both ends have been reached after a posterization, on
\* rasters the strategy changes.
C7_Witness ==
    /\ pc = "put"
    /\ settings.ditherType = "atkinson"
    /\ settings.posterizeEnabled
    /\ settings.ditherStrength = 100
    /\ Working # preDither

\* A call of process() was made with an image loaded and these settings.
Called == loaded # Null /\ settings \in Settings

CallsStrategy(s) ==
    s.ditherStrength > 0
    /\ (s.ditherType # "none" \/ ~s.posterizeEnabled \/ ~s.posterizeUsePalette)

Nearest(s) ==
    [s EXCEPT !.ditherStrength = Max(0, Min(100, @)),
              !.posterizeLevels = Max(2, Min(16, @)),
              !.blobDensity = Max(5, Min(100, @))]

\* A valid palette, and the settings other than strength, levels and
\* density inside the domains in which no stage raises.
ValidOtherwise(s) ==
    /\ Len(s.colors) \in 2..5
    /\ s.pixelScale = 1
    /\ s.orderedMatrixSize \in {2, 4, 8}
    /\ s.blobSoftness \in 0..100
    /\ 0 <= s.blobSizeMin /\ s.blobSizeMin <= s.blobSizeMax

\* C9: a run with a loaded image and a valid palette whose ditherStrength,
\* posterizeLevels or blob density is outside 0-100, 2-16, 5-100 does not
\* fail; its overlay draws the nearest valid number of blobs, and without
\* overlay and noise its output is that of the run with the three settings
\* replaced by their nearest valid values.
C9_OutOfRangeDegrades ==
    (Called /\ ValidOtherwise(settings) /\ settings # Nearest(settings)) =>
        /\ pc # "failed"
        /\ (pc = "blobs" /\ settings.blobEnabled) =>
              numBlobs = Nearest(settings).blobDensity /\ blobCanvas.i <= numBlobs
        /\ (pc \in {"step4", "step5", "done"} /\ settings.blobEnabled /\ settings.blobIntensity > 0) =>
              blobCanvas.i = Nearest(settings).blobDensity
        /\ (pc = "done" /\ Deterministic(settings)) =>
              getImageData(processCanvas) = RunOutput(loaded, Nearest(settings))

\* C9 witness: a run with density 120 has returned with 100 blobs drawn.
C9_Witness ==
    /\ pc = "done"
    /\ settings.blobDensity = 120
    /\ blobCanvas.i = 100
    /\ result = "ok"

C11_OverlayNeverFails ==
    [][(pc \in {"step3", "blobs"} /\ overlayApplies(settings)) => pc' # "failed"]_vars

\* C12: in a run on a loaded W x H image with pixelScale >= 1, once Step 0
\* has acted the working raster has width > 0, height > 0 and one RGBA
\* quadruple per pixel; while the run works at the reduced size
\* (pixelScale > 1, before the upscale) it is floor(W / pixelScale) by
\* floor(H / pixelScale); and the final raster is W x H.
C12_RasterDimensions ==
    (Called /\ settings.pixelScale >= 1 /\ pc # "step0") =>
        LET size == WorkSize(loaded, settings)
        IN  /\ Working.width > 0
            /\ Working.height > 0
            /\ Len(Working.data) = Working.width * Working.height
            /\ (pc \in {"step1", "step2", "blend", "put"} /\ settings.pixelScale > 1) =>
                  Working.width = size.width /\ Working.height = size.height
            /\ pc = "done" =>
                  /\ processCanvas.width = loaded.width
                  /\ processCanvas.height = loaded.height
                  /\ Len(processCanvas.data) = loaded.width * loaded.height

\* Every pixel of the raster has a colour of the palette.
PaletteOnly(img, palette) ==
    \A i \in 1..Len(img.data) : \E k \in 1..Len(palette) : RGB(img.data[i]) = palette[k]

\* C13: quantize applied to its own result returns it bit for bit, and a
\* raster whose pixels are all palette colours is returned unchanged.
C13_QuantizeIdempotent ==
    /\ fnOp = <<"quantize", "quantize">> => fnOut = quantize(fnIn, fnPal)
    /\ (fnOp = <<"quantize">> /\ PaletteOnly(fnIn, fnPal)) => fnOut = fnIn

\* C13 witness: quantize has been applied a second time to a result that
\* differs from the original raster.
C13_Witness ==
    /\ fnOp = <<"quantize", "quantize">>
    /\ ~PaletteOnly(fnIn, fnPal)
    /\ fnOut # fnIn

\* The uniform mid-gray 2x2 raster.
Gray2x2 == MkImage(2, 2, [i \in 1..4 |-> <<128, 128, 128, 255>>])

\* C14: floydSteinberg of the uniform 2x2 raster of (128,128,128) with the
\* palette [black, white] is white at (0,0), black at (1,0), black at (0,1)
\* and white at (1,1).
C14_GrayChecker ==
    (fnOp = <<"floydSteinberg">> /\ fnIn = Gray2x2 /\ fnPal = <<Black, White>>) =>
        /\ fnOut.width = 2 /\ fnOut.height = 2
        /\ RGB(PixelAt(fnOut, 0, 0)) = White
        /\ RGB(PixelAt(fnOut, 1, 0)) = Black
        /\ RGB(PixelAt(fnOut, 0, 1)) = Black
        /\ RGB(PixelAt(fnOut, 1, 1)) = White

\* C14 witness: the mid-gray raster has been dithered to black and white.
C14_Witness ==
    /\ fnOp = <<"floydSteinberg">>
    /\ fnIn = Gray2x2
    /\ fnPal = <<Black, White>>
    /\ fnOut # fnIn

\* The weighted squared distance of the first pixel's colour to palette
\* entry k.
DistanceTo(k) ==
    colorDistanceSq(fnIn.data[1][1] * FP, fnIn.data[1][2] * FP, fnIn.data[1][3] * FP,
                    fnPal[k][1] * FP, fnPal[k][2] * FP, fnPal[k][3] * FP)

\* Distance s is strictly smaller than distance t (limb tuples, most
\* significant limb first).
StrictlyCloser(s, t) ==
    \E k \in 1..5 : s[k] < t[k] /\ \A j \in 1..(k - 1) : s[j] = t[j]

\* C15: findClosestColor returns a palette entry at minimal weighted
\* squared distance, and of several such entries the one with the smallest
\* index: every earlier entry is strictly farther.
C15_NearestFirstWins ==
    fnOp = <<"findClosestColor">> =>
        \E k \in 1..Len(fnPal) :
            /\ fnOut.color = fnPal[k]
            /\ \A j \in 1..Len(fnPal) : ~StrictlyCloser(DistanceTo(j), DistanceTo(k))
            /\ \A j \in 1..(k - 1) : StrictlyCloser(DistanceTo(k), DistanceTo(j))

\* C15 witness: two entries of the palette are at the same minimal
\* distance and the first of them has been returned.
C15_Witness ==
    /\ fnOp = <<"findClosestColor">>
    /\ \E k \in 1..Len(fnPal) : \E j \in (k + 1)..Len(fnPal) :
          /\ fnOut.color = fnPal[k]
          /\ fnPal[j] # fnPal[k]
          /\ DistanceTo(j) = DistanceTo(k)

\* Whether the harness has applied posterize with the palette.
PosterizedWithPalette == fnOp[1] = "posterize" /\ fnOp[4]

\* The luminance-sorted palette holds the colour of every result pixel.
RemappedToPalette ==
    \A i \in 1..Len(fnOut.data) :
        \E k \in 1..Len(fnPal) : RGB(fnOut.data[i]) = sortPaletteByLuminance(fnPal)[k]

\* C16 as stated: with a palette, in each of the three modes the result is
\* the palette remap of the mode's posterization without a palette, and
\* every result pixel is an entry of the luminance-sorted palette.
C16_ModeThenRemap ==
    PosterizedWithPalette =>
        /\ fnOut.data = mapToPalette(posterize(fnIn, fnOp[2], fnOp[3], NullPalette).data, fnPal)
        /\ RemappedToPalette

\* C16, amended: with a palette of at least one colour, in per-channel and
\* artistic mode the result is the palette remap of the mode's
\* posterization; in luminance mode the luminance posterization is skipped
\* and the result is the palette remap of the input, whatever the levels.
\* Every result pixel is an entry of the luminance-sorted palette.
C16_RemapSkipsLuminance ==
    PosterizedWithPalette =>
        /\ fnOp[3] # "luminance" =>
              fnOut.data = mapToPalette(posterize(fnIn, fnOp[2], fnOp[3], NullPalette).data, fnPal)
        /\ fnOp[3] = "luminance" => fnOut.data = mapToPalette(fnIn.data, fnPal)
        /\ RemappedToPalette

\* C16 witness: luminance mode with a palette has returned a raster that
\* is not the remap of the luminance posterization.
C16_Witness ==
    /\ PosterizedWithPalette
    /\ fnOp[3] = "luminance"
    /\ fnOut.data # mapToPalette(posterize(fnIn, fnOp[2], "luminance", NullPalette).data, fnPal)

\* The operations of the harness whose result is a raster.
RasterOps ==
    {"quantize", "floydSteinberg", "atkinson", "orderedDither", "posterize", "addNoise",
     "blendWithOriginal"}

\* A raster with every alpha byte replaced by a.
WithAlpha(img, a) ==
    [img EXCEPT !.data = [i \in 1..Len(img.data) |-> <<img.data[i][1], img.data[i][2], img.data[i][3], a>>]]

\* The colour bytes of a raster, pixel by pixel.
ColourBytes(img) == [i \in 1..Len(img.data) |-> RGB(img.data[i])]

\* C17: quantize (once or twice), floydSteinberg, atkinson, orderedDither,
\* posterize in every mode with or without a palette, addNoise and
\* blendWithOriginal leave the alpha byte of every pixel at its input value,
\* and the error diffusion of floydSteinberg and atkinson neither writes error
\* into alpha nor reads it from alpha: the colour bytes they produce are the
\* ones they produce for the same raster with any other alpha.
C17_AlphaPreserved ==
    /\ fnOp[1] \in RasterOps =>
          /\ Len(fnOut.data) = Len(fnIn.data)
          /\ \A i \in 1..Len(fnIn.data) : fnOut.data[i][4] = fnIn.data[i][4]
    /\ fnOp = <<"floydSteinberg">> =>
          \A a \in {0, 255} : ColourBytes(floydSteinberg(WithAlpha(fnIn, a), fnPal)) = ColourBytes(fnOut)
    /\ fnOp = <<"atkinson">> =>
          \A a \in {0, 255} : ColourBytes(atkinson(WithAlpha(fnIn, a), fnPal)) = ColourBytes(fnOut)

\* An error-diffused raster of more than one pixel that changed and whose
\* pixels are not all opaque.
C17_Witness ==
    /\ fnOp[1] \in {"floydSteinberg", "atkinson"}
    /\ Len(fnIn.data) > 1
    /\ \E i \in 1..Len(fnIn.data) : fnIn.data[i][4] \notin {0, 255}
    /\ ColourBytes(fnOut) # ColourBytes(fnIn)

\* The byte stored for the colour byte v plus the noise of the draw d/RandDen.
NoisyByte(v, d, amount) ==
    ToUint8Clamped(clamp(v * RandDen + (2 * d - RandDen) * amount, RandDen), RandDen)

\* C18: addNoise with amount 0 returns the input byte for byte whatever the
\* random source returns, and for any amount each pixel has one draw of the
\* random source whose offset, added to R, G and B alike and clamped to
\* [0,255], gives the three colour bytes of the output.
C18_NoiseOneOffset ==
    fnOp[1] = "addNoise" =>
       /\ fnOp[2] = 0 => fnOut = fnIn
       /\ fnOut.width = fnIn.width /\ fnOut.height = fnIn.height
       /\ Len(fnOut.data) = Len(fnIn.data)
       /\ \A i \in 1..Len(fnIn.data) :
             \E d \in 0..(RandDen - 1) :
                \A k \in 1..3 : fnOut.data[i][k] = NoisyByte(fnIn.data[i][k], d, fnOp[2])

\* Noise of a positive amount from a stream whose draws differ, on a raster of
\* several pixels that it changed.
C18_Witness ==
    /\ fnOp[1] = "addNoise"
    /\ fnOp[2] > 0
    /\ fnOp[3][2] # 0
    /\ Len(fnIn.data) > 1
    /\ fnOut # fnIn

\* The multiples m * 255 / (levels - 1), m = 0 .. levels - 1, as stored bytes.
StepGrid(levels) == {ToUint8Clamped(m * 255, levels - 1) : m \in 0..(levels - 1)}

\* m * step is a multiple of step nearest to v: no other multiple is nearer.
NearestMultiple(m, v, levels) ==
    LET Off(n) == IF n * 255 >= v * (levels - 1) THEN n * 255 - v * (levels - 1)
                                                 ELSE v * (levels - 1) - n * 255
    IN  \A n \in 0..(levels - 1) : Off(m) <= Off(n)

\* C19: posterize in per-channel mode without a palette snaps R, G and B
\* independently to the nearest multiple of step = 255 / (levels - 1); with
\* levels = 2 a channel value of at most 127 becomes 0 and one of at least
\* 128 becomes 255 (0, 64 -> 0; 128, 192, 255 -> 255).
C19_PerChannelSnap ==
    (fnOp[1] = "posterize" /\ fnOp[3] = "per-channel" /\ ~fnOp[4]) =>
       /\ Len(fnOut.data) = Len(fnIn.data)
       /\ \A i \in 1..Len(fnIn.data) : \A k \in 1..3 :
             /\ \E m \in 0..(fnOp[2] - 1) :
                   /\ NearestMultiple(m, fnIn.data[i][k], fnOp[2])
                   /\ fnOut.data[i][k] = ToUint8Clamped(m * 255, fnOp[2] - 1)
             /\ fnOp[2] = 2 =>
                   fnOut.data[i][k] = IF fnIn.data[i][k] <= 127 THEN 0 ELSE 255

\* Two levels on a pixel with channels on both sides of the threshold:
\* (64, 192, 127) becomes (0, 255, 0).
C19_Witness ==
    /\ fnOp = <<"posterize", 2, "per-channel", FALSE>>
    /\ \E i \in 1..Len(fnIn.data) :
          /\ RGB(fnIn.data[i]) = <<64, 192, 127>>
          /\ RGB(fnOut.data[i]) = <<0, 255, 0>>

\* What a load of img into a new processor stores.
FreshOriginal(img) ==
    getImageData(drawImage(BlankCanvas(img.width, img.height), DefaultCtx, img))

\* C20: whatever loads complete or fail, clear() calls and process() calls
\* have happened, a stored original is the read-back of the source canvas
\* (same width, height and pixels) and is what a load of one image into a
\* new processor stores, nothing of an earlier image being left; without a
\* stored original both canvases are blank, 1 x 1 after a clear(); and
\* the step in which a load fails changes neither the stored original nor
\* either canvas.
C20_LoadReplacesWhole ==
    /\ [](/\ heap.orig # Null =>
                /\ sourceCanvas.width = heap.orig.width
                /\ sourceCanvas.height = heap.orig.height
                /\ getImageData(sourceCanvas) = heap.orig
                /\ \E img \in Images : heap.orig = FreshOriginal(img)
          /\ heap.orig = Null =>
                /\ sourceCanvas \in {DefaultCanvas, BlankCanvas(1, 1)}
                /\ processCanvas \in {DefaultCanvas, BlankCanvas(1, 1)})
    /\ [][(loadResult # "rejected" /\ loadResult' = "rejected") =>
             UNCHANGED <<heap, sourceCanvas, processCanvas, processCtx>>]_vars

\* A load has failed after a completed one, with the first image still
\* stored after a second one had replaced it and a call of process() ran.
C20_Witness ==
    /\ loadResult = "rejected"
    /\ heap.orig # Null
    /\ pc = "done"
    /\ \E img \in Images : heap.orig = FreshOriginal(img) /\ img.width * img.height = 2

\* The states the ambient generator may be in during the running call.
AmbientStreams == {r.stream : r \in Randoms(settings)}

\* C21: the overlay is reproducible from its inputs: every blob drawn is the
\* one the settings, the raster size and the position in the draw order
\* determine, whatever the state of the ambient generator, the settings
\* being all that a caller of process() passes (draw order per blob: centre,
\* radius, base alpha, then the control points).
C21_OverlayReproducible ==
    [][(pc = "blobs" /\ blobCanvas'.i = blobCanvas.i + 1) =>
          \A stream \in AmbientStreams :
             blobCanvas'.layer =
                fillBlob(blobCanvas.layer,
                         BlobDraws(stream, random.next, heap.orig.width, heap.orig.height,
                                   blobOptions(settings)),
                         blobOptions(settings), heap.orig.width,
                         heap.orig.width * heap.orig.height)]_vars

\* The Floyd-Steinberg shares as [dx, dy, sixteenths].
FSShares == <<<<1, 0, 7>>, <<-1, 1, 3>>, <<0, 1, 5>>, <<1, 1, 1>>>>

\* The colour (in fixed point) pixel q has when it is visited: its input
\* plus the share of the error of every earlier pixel it is the right,
\* bottom-left, bottom or bottom-right neighbour of.
RECURSIVE FSVisited(_, _, _)
FSVisited(img, palette, q) ==
    LET x == (q - 1) % img.width
        y == (q - 1) \div img.width
        From(s) ==
            LET px == x - s[1]
                py == y - s[2]
            IN  IF px \in 0..(img.width - 1) /\ py \in 0..(img.height - 1)
                THEN LET v == FSVisited(img, palette, py * img.width + px + 1)
                         c == findClosestColor(v[1], v[2], v[3], palette)
                     IN  <<((v[1] - c[1] * FP) * s[3]) \div 16,
                           ((v[2] - c[2] * FP) * s[3]) \div 16,
                           ((v[3] - c[3] * FP) * s[3]) \div 16>>
                ELSE <<0, 0, 0>>
        e1 == From(FSShares[1])
        e2 == From(FSShares[2])
        e3 == From(FSShares[3])
        e4 == From(FSShares[4])
    IN  <<img.data[q][1] * FP + e1[1] + e2[1] + e3[1] + e4[1],
          img.data[q][2] * FP + e1[2] + e2[2] + e3[2] + e4[2],
          img.data[q][3] * FP + e1[3] + e2[3] + e3[3] + e4[3]>>

\* The colour bytes of a pixel inverted: a pixel that differs from it.
Inverted(px) == <<255 - px[1], 255 - px[2], 255 - px[3], px[4]>>

\* The raster with pixel p replaced by c.
WithPixel(img, p, c) == [img EXCEPT !.data[p] = c]

\* The error of the raster's first pixel, placed on the centre of a 3 x 3
\* buffer of zeros and distributed.
CentreSpread ==
    LET v == FloatBuffer(fnIn.data)[1]
        err == PixelError(v, findClosestColor(v[1], v[2], v[3], fnPal))
    IN  [err |-> err,
         buffer |-> FSDistribute([i \in 1..9 |-> <<0, 0, 0, 0>>], 5, err, 3, 3)]

\* C22: floydSteinberg visits the pixels in row-major order; the colour a
\* pixel has when visited is its input plus 7/16, 3/16, 5/16, 1/16 of the
\* error of the pixels it is the right, bottom-left, bottom, bottom-right
\* neighbour of, shares that would leave the raster being dropped; changing
\* the input pixel at position p changes no output pixel before p; and the
\* four shares of an interior pixel add up to its whole error.
C22_ErrorFlowsForward ==
    fnOp = <<"floydSteinberg">> =>
       /\ \A q \in 1..Len(fnIn.data) :
             LET v == FSVisited(fnIn, fnPal, q)
             IN  RGB(fnOut.data[q]) = findClosestColor(v[1], v[2], v[3], fnPal)
       /\ \A p \in 2..Len(fnIn.data) :
             LET other == floydSteinberg(WithPixel(fnIn, p, Inverted(fnIn.data[p])), fnPal)
             IN  \A q \in 1..(p - 1) : other.data[q] = fnOut.data[q]
       /\ LET s == CentreSpread
          IN  /\ \A k \in 1..3 :
                    /\ 16 * s.buffer[6][k] = 7 * s.err[k]
                    /\ 16 * s.buffer[7][k] = 3 * s.err[k]
                    /\ 16 * s.buffer[8][k] = 5 * s.err[k]
                    /\ 16 * s.buffer[9][k] = s.err[k]
                    /\ s.buffer[6][k] + s.buffer[7][k] + s.buffer[8][k] + s.buffer[9][k]
                          = s.err[k]
              /\ \A i \in 1..5 : s.buffer[i] = <<0, 0, 0, 0>>

\* A 2 x 2 raster whose last pixel's output differs from its nearest palette
\* colour: error reached it from earlier pixels.
C22_Witness ==
    /\ fnOp = <<"floydSteinberg">>
    /\ fnIn.width = 2 /\ fnIn.height = 2
    /\ RGB(fnOut.data[4]) # findClosestColor(fnIn.data[4][1] * FP, fnIn.data[4][2] * FP,
                                             fnIn.data[4][3] * FP, fnPal)

\* The Atkinson neighbours as [dx, dy].
AtkinsonOffsets == <<<<1, 0>>, <<2, 0>>, <<-1, 1>>, <<0, 1>>, <<1, 1>>, <<0, 2>>>>

\* The colour (in fixed point) pixel q has when atkinson visits it: its input
\* plus an eighth of the error of every pixel it is one of the six
\* neighbours of.
RECURSIVE AtkinsonVisited(_, _, _)
AtkinsonVisited(img, palette, q) ==
    LET x == (q - 1) % img.width
        y == (q - 1) \div img.width
        From(o) ==
            LET px == x - o[1]
                py == y - o[2]
            IN  IF px \in 0..(img.width - 1) /\ py \in 0..(img.height - 1)
                THEN LET v == AtkinsonVisited(img, palette, py * img.width + px + 1)
                         c == findClosestColor(v[1], v[2], v[3], palette)
                     IN  <<(v[1] - c[1] * FP) \div 8, (v[2] - c[2] * FP) \div 8,
                           (v[3] - c[3] * FP) \div 8>>
                ELSE <<0, 0, 0>>
        e1 == From(AtkinsonOffsets[1])
        e2 == From(AtkinsonOffsets[2])
        e3 == From(AtkinsonOffsets[3])
        e4 == From(AtkinsonOffsets[4])
        e5 == From(AtkinsonOffsets[5])
        e6 == From(AtkinsonOffsets[6])
    IN  <<img.data[q][1] * FP + e1[1] + e2[1] + e3[1] + e4[1] + e5[1] + e6[1],
          img.data[q][2] * FP + e1[2] + e2[2] + e3[2] + e4[2] + e5[2] + e6[2],
          img.data[q][3] * FP + e1[3] + e2[3] + e3[3] + e4[3] + e5[3] + e6[3]>>

\* The error of the raster's first pixel, taken for the error of pixel i of a
\* 4 x 3 buffer of zeros and distributed.
AtkinsonSpread(i) ==
    LET v == FloatBuffer(fnIn.data)[1]
        err == PixelError(v, findClosestColor(v[1], v[2], v[3], fnPal))
    IN  [err |-> err,
         buffer |-> AtkinsonDistribute([j \in 1..12 |-> <<0, 0, 0, 255 * FP>>], i, err, 4, 3, 1)]

\* The pixels of the 4 x 3 buffer that are neighbours of pixel i.
SpreadTargets(i) ==
    {py * 4 + px + 1 :
        <<px, py>> \in {<<((i - 1) % 4) + AtkinsonOffsets[n][1],
                           ((i - 1) \div 4) + AtkinsonOffsets[n][2]>> : n \in 1..6}
                       \cap ((0..3) \X (0..2))}

\* C23: atkinson gives a pixel, when it visits it, its input plus one eighth
\* of the error of each pixel it is the (x+1,y), (x+2,y), (x-1,y+1), (x,y+1),
\* (x+1,y+1) or (x,y+2) neighbour of; the error of a pixel adds exactly one
\* eighth to each of those six neighbours inside the raster and nothing to
\* any other pixel, so that at most six eighths are passed on; and no pixel
\* at or before the one being visited has its buffer changed.
C23_AtkinsonEighths ==
    fnOp = <<"atkinson">> =>
       /\ \A q \in 1..Len(fnIn.data) :
             LET v == AtkinsonVisited(fnIn, fnPal, q)
             IN  RGB(fnOut.data[q]) = findClosestColor(v[1], v[2], v[3], fnPal)
       /\ \A i \in {2, 4, 9, 12} :
             LET s == AtkinsonSpread(i)
             IN  /\ \A j \in SpreadTargets(i) : \A k \in 1..3 : 8 * s.buffer[j][k] = s.err[k]
                 /\ \A j \in (1..12) \ SpreadTargets(i) : s.buffer[j] = <<0, 0, 0, 255 * FP>>
                 /\ \A j \in 1..12 : s.buffer[j][4] = 255 * FP
                 /\ \A j \in 1..i : s.buffer[j] = <<0, 0, 0, 255 * FP>>
                 /\ Cardinality(SpreadTargets(i)) <= 6
       /\ Cardinality(SpreadTargets(2)) = 6

\* A raster of two rows whose last pixel's output differs from its nearest
\* palette colour: the eighths of earlier pixels reached it.
C23_Witness ==
    /\ fnOp = <<"atkinson">>
    /\ fnIn.height = 2
    /\ LET n == Len(fnIn.data)
       IN  RGB(fnOut.data[n]) # findClosestColor(fnIn.data[n][1] * FP, fnIn.data[n][2] * FP,
                                                 fnIn.data[n][3] * FP, fnPal)

\* The running or last call dithers with the ordered strategy.
OrderedRun == Called /\ settings.ditherType = "ordered" /\ ditherApplies(settings)

\* C24: a run with ordered dithering does not fail in the dither stage
\* whatever orderedMatrixSize is, and with a size other than 2, 4 and 8 its
\* dithered raster is the one orderedMatrixSize = 4 gives.
C24_AnyMatrixSize ==
    OrderedRun =>
       /\ ~(pc = "failed" /\ result = "TypeError" /\ Len(settings.colors) > 0)
       /\ (pc \in {"blend", "put", "step3", "blobs", "step4", "step5", "done"}
             /\ settings.orderedMatrixSize \notin {2, 4, 8}) =>
             ditherOut = orderedDither(preDither, Palette(settings), 4)

\* indexForLuminance(l, n) of the luminance l = num/den: round(l / 255 * (n - 1))
\* clamped to [0, n - 1].
IndexForLuminance(num, den, n) ==
    LET index == (2 * num * (n - 1) + 255 * den) \div (2 * 255 * den)
    IN  IF index < 0 THEN 0 ELSE IF index > n - 1 THEN n - 1 ELSE index

\* The index the formula gives the pixel px at (x, y): the luminance plus
\* 255 * (threshold - 0.5) * 0.5, thresholds being held times 10000.
ThresholdIndex(px, x, y, size, n) ==
    IndexForLuminance(20000 * getLuminance(px[1], px[2], px[3])
                        + 255 * (bayerMatrices(size)[(y % size) + 1][(x % size) + 1] - 5000),
                      20000, n)

\* C25: orderedDither with a matrix of size 2, 4 or 8 is a function of
\* position and input pixel: the output at (x, y) is the entry of the
\* luminance-sorted palette at indexForLuminance(luminance + 255 *
\* (threshold - 0.5) * 0.5, n), an index within 0..n-1; changing one input
\* pixel changes no other output pixel, and to a pixel of lower or equal
\* luminance gives that position an output of lower or equal index; pixels of
\* equal RGB at positions congruent modulo the matrix size get the same colour.
C25_OrderedPointwise ==
    fnOp[1] = "orderedDither" =>
       LET size == fnOp[2]
           n == Len(fnPal)
           sorted == sortPaletteByLuminance(fnPal)
           X(i) == (i - 1) % fnIn.width
           Y(i) == (i - 1) \div fnIn.width
           Index(px, i) == ThresholdIndex(px, X(i), Y(i), size, n)
       IN  /\ \A i \in 1..Len(fnIn.data) :
                 /\ Index(fnIn.data[i], i) \in 0..(n - 1)
                 /\ RGB(fnOut.data[i]) = sorted[Index(fnIn.data[i], i) + 1]
           /\ \A p \in 1..Len(fnIn.data) : \A c \in {Inverted(fnIn.data[p]), <<0, 0, 0, 255>>} :
                 LET other == orderedDither(WithPixel(fnIn, p, c), fnPal, size)
                 IN  /\ \A q \in (1..Len(fnIn.data)) \ {p} : other.data[q] = fnOut.data[q]
                     /\ RGB(other.data[p]) = sorted[Index(c, p) + 1]
                     /\ getLuminance(c[1], c[2], c[3])
                           <= getLuminance(fnIn.data[p][1], fnIn.data[p][2], fnIn.data[p][3])
                        => Index(c, p) <= Index(fnIn.data[p], p)
           /\ \A p, q \in 1..Len(fnIn.data) :
                 (/\ RGB(fnIn.data[p]) = RGB(fnIn.data[q])
                  /\ X(p) % size = X(q) % size
                  /\ Y(p) % size = Y(q) % size) => RGB(fnOut.data[p]) = RGB(fnOut.data[q])

\* A row of three or more pixels dithered with the 2 x 2 matrix whose first
\* and third pixel are the same colour, no palette colour, and whose first
\* two pixels, of equal colour too, got different palette colours.
C25_Witness ==
    /\ fnOp = <<"orderedDither", 2>>
    /\ fnIn.width >= 3
    /\ RGB(fnIn.data[1]) = RGB(fnIn.data[3])
    /\ RGB(fnIn.data[1]) = RGB(fnIn.data[2])
    /\ RGB(fnOut.data[1]) # RGB(fnOut.data[2])
    /\ RGB(fnOut.data[1]) = RGB(fnOut.data[3])
    /\ \A k \in 1..Len(fnPal) : RGB(fnIn.data[1]) # fnPal[k]

\* The ditherStrength values of the documented range that runs are compared at.
StrengthValues == {0, 40, 100}

\* A returned run with dither kind none, a strength of the documented range,
\* a palette of 2 to 5 colours, and overlay and noise off.
QuantizeOnlyRun ==
    /\ Called
    /\ pc = "done"
    /\ settings.ditherType = "none"
    /\ settings.ditherStrength \in 0..100
    /\ Len(settings.colors) \in 2..5
    /\ Deterministic(settings)

\* C26: a returned run with dither kind none gives the output that the same
\* original and settings give with any other ditherStrength of 0..100, and
\* with original-blend off too every pixel of that output is a palette colour.
C26_StrengthIgnored ==
    QuantizeOnlyRun =>
       /\ \A d \in StrengthValues :
             getImageData(processCanvas) = RunOutput(loaded, [settings EXCEPT !.ditherStrength = d])
       /\ settings.originalBlend <= 0 =>
             \A i \in 1..Len(getImageData(processCanvas).data) :
                \E k \in 1..Len(settings.colors) :
                   RGB(getImageData(processCanvas).data[i]) = Palette(settings)[k]

\* Channel values the luminance is evaluated at.
LumSamples == {0, 1, 2, 3, 8, 127, 128, 254, 255}

\* C27: posterize in luminance mode without a palette leaves a pixel of
\* integer luminance (r*77 + g*150 + b*29) >> 8 = 0 as it is, and every
\* output channel is a byte of 0..255; the luminance is within 0..255 and is
\* v for the grey (v, v, v).
C27_ZeroLuminanceKept ==
    /\ fnOp[1] = "posterizeDark" =>
          /\ (fnOp[3][1] * 77 + fnOp[3][2] * 150 + fnOp[3][3] * 29) \div 256 = 0
          /\ fnOut.data[1] = fnOp[3]
          /\ \A i \in 1..Len(fnOut.data) : \A k \in 1..4 : fnOut.data[i][k] \in 0..255
    /\ (fnOp[1] = "posterize" /\ fnOp[3] = "luminance" /\ ~fnOp[4]) =>
          /\ \A i \in 1..Len(fnIn.data) :
                /\ getLuminance(fnIn.data[i][1], fnIn.data[i][2], fnIn.data[i][3]) = 0
                      => fnOut.data[i] = fnIn.data[i]
                /\ \A k \in 1..4 : fnOut.data[i][k] \in 0..255
                /\ getLuminance(fnIn.data[i][1], fnIn.data[i][2], fnIn.data[i][3])
                      = (fnIn.data[i][1] * 77 + fnIn.data[i][2] * 150 + fnIn.data[i][3] * 29) \div 256
          /\ \A r, g, b \in LumSamples : getLuminance(r, g, b) \in 0..255
          /\ \A v \in 0..255 : getLuminance(v, v, v) = v

\* A raster of several pixels whose first pixel, dark but not black, came out
\* of the luminance posterization with a pixel after it changed.
C27_Witness ==
    /\ fnOp[1] = "posterizeDark"
    /\ Len(fnIn.data) > 1
    /\ fnOut.data[1] = fnOp[3]
    /\ fnOut.data[2] # fnIn.data[2]


\* C28: after any sequence of addColor, removeColor(index) and
\* updateColor(index, color) calls from the initial two-colour palette, the
\* store's palette has 2 to 5 entries, every entry is a defined colour and
\* the entries are pairwise distinct; a call that returns false (addColor at
\* 5 entries, removeColor at 2) leaves the palette unchanged and notifies no
\* subscriber.
C28_PaletteInvariant ==
    /\ [](/\ Len(colors) \in 2..5
          /\ \A i \in 1..Len(colors) : colors[i] # Undefined
          /\ \A i, j \in 1..Len(colors) : i # j => colors[i] # colors[j]
          /\ storeCall.returned = "false" => ~storeCall.notified)
    /\ [][/\ (storeCall'.op = "addColor" /\ Len(colors) = 5) => storeCall'.returned = "false"
          /\ (storeCall'.op = "removeColor" /\ Len(colors) = 2) => storeCall'.returned = "false"
          /\ storeCall'.returned = "false" => colors' = colors]_vars


\* C29: every loadImage call settles: whatever the source, its promise is
\* eventually resolved, the stored original then being the image of the
\* source, or rejected; none stays pending forever.
C29_LoadSettles ==
    /\ \A source \in SourceKinds : (source \in load) ~> (source \notin load)
    /\ [][/\ "decodable" \in load \ load' =>
                 (loadResult' = "resolved" /\ heap'.orig = FreshOriginal(AppImage))
          /\ "broken" \in load \ load' => loadResult' = "rejected"
          /\ "other" \notin load \ load']_vars


\* The frame callbacks waiting that the debounce timeout requested.
TimerFrames == {k \in 1..Len(raf) : raf[k] = "timer"}

\* C30: debounced reprocessing coalesces a burst.  At most one timeout is
\* armed; over processImageDebounced calls each made while the timeout of
\* the one before is armed the timeout fires at most once, after the last of
\* them, and does fire; a firing with an image loaded requests exactly one
\* frame callback and one without an image requests none, so that no run is
\* started while no image is loaded; the callback is called, hands the run
\* the palette and settings the store holds at that moment, and leaves the
\* indicator inactive whether the run returned or threw; the indicator is
\* active only while a callback is waiting.
C30_DebounceCoalesces ==
    /\ [](/\ timers <= 1
          /\ burst.fired <= 1
          /\ burst.fired = 1 => timers = 0
          /\ timers = 1 => (burst.calls >= 1 /\ burst.fired = 0)
          /\ ~hasImage => (raf = <<>> /\ lastRun.origin = "none")
          /\ raf = <<>> => ~indicator)
    /\ [][/\ burst'.fired = burst.fired + 1 =>
                 /\ timers' = 0
                 /\ burst'.calls = burst.calls
                 /\ raf' = IF hasImage THEN Append(raf, "timer") ELSE raf
          /\ Cardinality(TimerFrames') > Cardinality(TimerFrames) => burst'.fired = burst.fired + 1
          /\ Len(raf') < Len(raf) =>
                 /\ raf' = Tail(raf)
                 /\ lastRun'.origin = Head(raf)
                 /\ lastRun'.handed = [colors |-> colors, settings |-> storeSettings]
                 /\ storeSettings' = storeSettings
                 /\ ~indicator'
          /\ lastRun' # lastRun => Len(raf') < Len(raf)]_vars
    /\ (timers > 0) ~> (timers = 0 /\ burst.fired = 1)
    /\ (TimerFrames # {}) ~> (lastRun.origin = "timer")
    /\ indicator ~> ~indicator

\* A burst of three calls has fired once, the run it led to was handed the
\* strength the last call stored and threw, and the indicator is inactive.
C30_Witness ==
    /\ burst = [calls |-> 3, fired |-> 1]
    /\ timers = 0
    /\ raf = <<>>
    /\ lastRun.origin = "timer"
    /\ lastRun.outcome = "threw"
    /\ lastRun.handed.settings.ditherStrength = 40
    /\ storeSettings.ditherStrength = 40
    /\ ~indicator

=============================================================================
